---- MODULE Spec2Model ----
(***************************************************************************)
(* Model of the Application Data Interface (ADI) of adi-cacheducks: the    *)
(* module-level state of ADI.ts (initialized, cache, subscribers), the     *)
(* cache interface built by createCacheInterface over a map of databases,  *)
(* and the operations of the instance returned by createDataCacheAPI.      *)
(*                                                                         *)
(* JavaScript values are written as strings: "undefined", "null", "n:0"    *)
(* (the number 0), "n:1" (the number 1), "s:1" (the string "1"), "o:..."   *)
(* (objects).  An async function is one action per run-to-completion       *)
(* segment; its suspended calls are the records of `pending`.              *)
(*                                                                         *)
(* Eight specifications share the actions: Spec (the first instance, over *)
(* databases that keep what they are given, one call at a time), SpecTests *)
(* (the same over the makeDBCache() objects of the index tests), SpecReg   *)
(* (the subscriber registry with unsubscribe and invalid arguments),       *)
(* SpecLife (construction, validation of the cache map, start and end),    *)
(* SpecInst (several instances, cache maps that change, start with or      *)
(* without a window), SpecBack (a database whose calls reject or whose     *)
(* list resolves to null, and names that stand for no database), SpecConc  *)
(* (calls that overlap) and SpecAct (listeners that subscribe, unsubscribe *)
(* or throw while notified).                                               *)
(***************************************************************************)
EXTENDS Naturals, Sequences, FiniteSets, TLC

VARIABLES
  initialized,  \* ADI.ts `let initialized`
  cache,        \* ADI.ts `let cache`: undefined, null or a cache interface
  subscribers,  \* ADI.ts `let subscribers`: the ordered registry
  local,        \* window.localStorage
  db,           \* the contents of each database of the cache map
  unsubs,       \* the unsubscribe closures handed out so far
  nextFilter,   \* number of filter closures created by subscribeToCaches
  pending,      \* suspended async calls (getItem, publishItem, listItems, publishItems)
  cacheMap,     \* the cache map objects of the instances created, in order of creation
  called,       \* the unsubscribe closures that have been called
  step          \* what the last segment did: calls made, notifications, outcome

vars == <<initialized, cache, subscribers, local, db, unsubs, nextFilter, pending,
          cacheMap, called, step>>

----------------------------------------------------------------------------
(* Bounds of the model *)

\* subscribeToCaches creates a fresh closure per call; at most this many calls
MaxFilters == 1

\* the same, where the registry is explored on its own
MaxScoped == 2

\* getItem calls suspended at once, where calls overlap
MaxPending == 2

\* instances created by createDataCacheAPI, the first one included
MaxInstances == 2

----------------------------------------------------------------------------
(* JavaScript values *)

Undef == "undefined"
Null == "null"
Zero == "n:0"
Num1 == "n:1"
Str1 == "s:1"
Str2 == "s:2"
Str3 == "s:3"
EmptyArr == "o:[]"
EmptyPage == "o:{data:[]}"
Page == "o:page"
Absent == "absent"

\* JS truthiness (`if (value)`, `!data`, `a || b`)
Truthy(v) == v \notin {Undef, Null, Zero, "s:", "false", ""}

\* a || b
OrElse(a, b) == IF Truthy(a) THEN a ELSE b

\* String(v): Storage.setItem stores the string conversion of its value
\* (a string, the last case, is stored as it is)
ToStr(v) ==
  CASE v = Num1 -> Str1
    [] v = Zero -> "s:0"
    [] v = Undef -> "s:undefined"
    [] v = Null -> "s:null"
    [] v = EmptyArr -> "s:"
    [] v \in {EmptyPage, Page} -> "s:[object Object]"
    [] v = "true" -> "s:true"
    [] v = "false" -> "s:false"
    [] OTHER -> v

----------------------------------------------------------------------------
(* Input domains *)

EmptyKey == ""
AllKey == "all"
Keys == {EmptyKey, "k"}
\* keys handed to cacheItem: also none at all, as in cacheItem()
CacheKeys == Keys \cup {Undef}
\* keys handed to getItem / publishItem: "all" makes the cache interface list
ReadKeys == Keys \cup {AllKey}
\* keys a store can hold
KeyDomain == ReadKeys
CacheMap == {"users", "items"}
\* cacheKey arguments: none (localStorage), a database of the map, an unknown name
StoreArgs == {Undef, "users", "missing"}
ClearArgs == StoreArgs \cup {"items", "all"}
\* opts.cacheKey of listItems / publishItems: also the empty string
ListArgs == StoreArgs \cup {""}
CacheValues == {Undef, Null, Zero, Num1}
\* what the fallback passed to getItem / publishItem resolves to
NoFallback == "default"
Fallbacks == {NoFallback, Str1}
Listeners == {"l1", "l2"}
NotAFunction == "null"
Scopes == {{"users"}, {"users", "items"}}
Preds == {"default", "isTruthy"}

\* error messages of publishError
ErrNotInit == "ADI is not initialized"
ErrNoKey == "Item Key was not supplied for caching"
ErrSubscriber == "Invalid ADI subscriber"
ErrNoCaches == "Subscription requires at least one cache name"
NoErr == "none"

----------------------------------------------------------------------------
(* The objects of a cache map.  A cache map is the object the application *)
(* hands to createDataCacheAPI: a sequence of entries [name, shape] in the *)
(* order of its keys, where shape tells what the object under the name is. *)

\* databases that honour ADIDBInterface: putItem keeps the value under its
\* id, getItem resolves what is kept or null, listItems resolves a page
DbOk == "ok"                    \* the four required functions
DbClears == "ok+clearItems"     \* and the optional clearItems
\* makeDBCache() of the tests: getItem, putItem and removeItem resolve their
\* first argument, listItems resolves {data: []}, nothing is kept
DbFixture == "makeDBCache+clearItems"  \* index tests: clearItems() returns true
DbFixtureBare == "makeDBCache"         \* ADI tests: no clearItems
\* { ...makeDBCache(), listItems: null } of the index tests: the same object
\* with null under the key listItems
DbListNull == "listItems:null"
\* databases whose calls reject, or whose listItems resolves to null
DbRejects == "rejects"
DbListsNothing == "listItems resolves null"
\* objects that are no databases
DbEmpty == "{}"                 \* an object with no own keys
DbNoPut == "no putItem"         \* an object without the key putItem
DbNull == "null"                \* null in place of the object
\* undefined: dbs[name] where the map has no key name, and the value of an
\* entry of the map that holds undefined
NoDb == "undefined"
\* names every object written as a literal has from Object.prototype; the
\* model uses constructor (others: toString, hasOwnProperty, __proto__)
Inherited == {"constructor"}
\* what dbs[name] is for such a name, unless the map has a key of its own:
\* a function or object of Object.prototype, truthy, with no own keys and
\* none of the functions of a database
DbInherited == "Object.prototype member"

Required == {"listItems", "getItem", "putItem", "removeItem"}

\* Object.keys(db)
DbKeys(shape) ==
  CASE shape \in {DbEmpty, DbNull, NoDb, DbInherited} -> {}
    [] shape = DbNoPut -> Required \ {"putItem"}
    [] shape \in {DbClears, DbFixture, DbListNull} -> Required \cup {"clearItems"}
    [] OTHER -> Required

\* typeof db[fn] === "function"
IsFunction(shape, fn) ==
  fn \in DbKeys(shape) /\ ~(shape = DbListNull /\ fn = "listItems")

\* db.clearItems, the optional function
HasClearItems(shape) == IsFunction(shape, "clearItems")

Echoes(shape) == shape \in {DbFixture, DbFixtureBare, DbListNull}

DbAt(name, shape) == [name |-> name, shape |-> shape]

\* Object.keys(dbs): the names in the order of the map's keys
MapOrder(dbs) == [i \in 1..Len(dbs) |-> dbs[i].name]

\* dbs[name]: the map's own entry, else what the map inherits under the
\* name, else undefined
Lookup(dbs, name) ==
  IF \E i \in 1..Len(dbs) : dbs[i].name = name
  THEN dbs[CHOOSE i \in 1..Len(dbs) : dbs[i].name = name].shape
  ELSE IF name \in Inherited THEN DbInherited
  ELSE NoDb

\* the cache map object a cache interface closes over: the application's
\* object itself, read at every call
DbsOf(ci) == IF ci.of \in 1..Len(cacheMap) THEN cacheMap[ci.of] ELSE <<>>

\* what the installed cache interface finds under a name
Behaviour(name) == Lookup(DbsOf(cache), name)

----------------------------------------------------------------------------
(* The stores: window.localStorage and the databases of the cache map.     *)
(* A world w is [local |-> ..., db |-> ...]; an adapter or database call   *)
(* yields [w |-> the world after it, calls |-> the store calls it made,    *)
(* ret |-> what it returns (what its promise resolves to)].                *)

World == [local |-> local, db |-> db]

\* a promise that rejects, and the error a rejecting backend rejects with
Rejected == "rejected"
ErrBackend == "backend failure"
\* a call of something that is no function: the TypeError it throws
Thrown == "thrown"
ErrNotFunction == "TypeError: not a function"

\* an awaited promise that rejects, and what awaiting it throws
Failed(data) == data \in {Rejected, Thrown}
ErrOf(data) == IF data = Thrown THEN ErrNotFunction ELSE ErrBackend

Call(target, fn, key, val) == [target |-> target, fn |-> fn, key |-> key, val |-> val]

NoCall(w, ret) == [w |-> w, calls |-> <<>>, ret |-> ret]

\* a key (an id) as the value a function resolves with
AsValue(key) == IF key = Undef THEN Undef ELSE "s:" \o key

\* the two storages `local` may be: window.localStorage, and the `fallback`
\* storage whose functions are all noop = () => null
LocalStorage == "localStorage"
FallbackStorage == "fallback"

\* Storage.getItem: the stored string, or null
LocalGetItem(w, storage, key) ==
  IF storage = FallbackStorage THEN NoCall(w, Null)
  ELSE [w |-> w, calls |-> <<Call("local", "getItem", key, Undef)>>,
        ret |-> IF w.local[key] = Absent THEN Null ELSE w.local[key]]

\* Storage.setItem: stores String(value)
LocalSetItem(w, storage, key, value) ==
  IF storage = FallbackStorage THEN NoCall(w, Null)
  ELSE [w |-> [w EXCEPT !.local[key] = ToStr(value)],
        calls |-> <<Call("local", "setItem", key, value)>>, ret |-> Undef]

LocalRemoveItem(w, storage, key) ==
  IF storage = FallbackStorage THEN NoCall(w, Null)
  ELSE [w |-> [w EXCEPT !.local[key] = Absent],
        calls |-> <<Call("local", "removeItem", key, Undef)>>, ret |-> Undef]

LocalClear(w, storage) ==
  IF storage = FallbackStorage THEN NoCall(w, Null)
  ELSE [w |-> [w EXCEPT !.local = [k \in KeyDomain |-> Absent]],
        calls |-> <<Call("local", "clear", Undef, Undef)>>, ret |-> Undef]

\* db.getItem(id) of the object of that shape under name
DbGetItem(w, shape, name, key) ==
  IF ~IsFunction(shape, "getItem") THEN NoCall(w, Thrown)
  ELSE [w |-> w, calls |-> <<Call(name, "getItem", key, Undef)>>,
        ret |-> CASE shape = DbRejects -> Rejected
                  [] Echoes(shape) -> AsValue(key)
                  [] OTHER -> IF w.db[name][key] = Absent THEN Null ELSE w.db[name][key]]

\* db.putItem(id, val)
DbPutItem(w, shape, name, key, value) ==
  IF ~IsFunction(shape, "putItem") THEN NoCall(w, Thrown)
  ELSE IF shape = DbRejects
  THEN [w |-> w, calls |-> <<Call(name, "putItem", key, value)>>, ret |-> Rejected]
  ELSE IF Echoes(shape)
  THEN [w |-> w, calls |-> <<Call(name, "putItem", key, value)>>, ret |-> AsValue(key)]
  ELSE [w |-> [w EXCEPT !.db[name][key] = value],
        calls |-> <<Call(name, "putItem", key, value)>>, ret |-> value]

\* db.removeItem(id)
DbRemoveItem(w, shape, name, key) ==
  IF ~IsFunction(shape, "removeItem") THEN NoCall(w, Thrown)
  ELSE IF shape = DbRejects
  THEN [w |-> w, calls |-> <<Call(name, "removeItem", key, Undef)>>, ret |-> Rejected]
  ELSE IF Echoes(shape)
  THEN [w |-> w, calls |-> <<Call(name, "removeItem", key, Undef)>>, ret |-> AsValue(key)]
  ELSE [w |-> [w EXCEPT !.db[name][key] = Absent],
        calls |-> <<Call(name, "removeItem", key, Undef)>>, ret |-> key]

\* db.listItems(opts)
DbListItems(w, shape, name) ==
  IF ~IsFunction(shape, "listItems") THEN NoCall(w, Thrown)
  ELSE [w |-> w, calls |-> <<Call(name, "listItems", Undef, Undef)>>,
        ret |-> CASE shape = DbRejects -> Rejected
                  [] shape = DbListsNothing -> Null
                  [] Echoes(shape) -> EmptyPage
                  [] OTHER -> IF \A k \in KeyDomain : w.db[name][k] = Absent
                              THEN EmptyPage ELSE Page]

\* db.clearItems(), where the object has it
DbClearItems(w, shape, name) ==
  [w |-> IF Echoes(shape) THEN w ELSE [w EXCEPT !.db[name] = [k \in KeyDomain |-> Absent]],
   calls |-> <<Call(name, "clearItems", Undef, Undef)>>, ret |-> "true"]

\* what the store a cacheKey stands for holds under a key: localStorage
\* without a cacheKey, the database of that name, nothing for other names
StoredAt(w, key, cacheKey) ==
  IF key \notin KeyDomain THEN Absent
  ELSE IF ~Truthy(cacheKey) THEN w.local[key]
  ELSE IF cacheKey \in CacheMap THEN w.db[cacheKey][key]
  ELSE Absent

----------------------------------------------------------------------------
(* createCacheInterface(dbs): the functions of a cache interface ci, which *)
(* closes over dbs (DbsOf(ci)) and over `local` (ci.local)                 *)

\* `db ? ... : null`
Present(shape) == shape \notin {NoDb, DbNull}

\* getItem that reads localStorage when the named database is not in the map
CIgetItemLocalFallback(w, ci, key, cacheKey) ==
  LET d == Lookup(DbsOf(ci), cacheKey) IN
  IF ~Truthy(cacheKey) \/ ~Present(d)
  THEN LET r == LocalGetItem(w, ci.local, key) IN [r EXCEPT !.ret = OrElse(r.ret, Null)]
  ELSE IF key = AllKey THEN DbListItems(w, d, cacheKey)
                       ELSE DbGetItem(w, d, cacheKey, key)

CIgetItem(w, ci, key, cacheKey) ==
  LET d == Lookup(DbsOf(ci), cacheKey) IN
  IF ~Truthy(cacheKey)
  THEN LET r == LocalGetItem(w, ci.local, key) IN [r EXCEPT !.ret = OrElse(r.ret, Null)]
  ELSE IF Present(d)
       THEN IF key = AllKey THEN DbListItems(w, d, cacheKey)
                            ELSE DbGetItem(w, d, cacheKey, key)
       ELSE NoCall(w, Null)

CIlistItems(w, ci, cacheKey) ==
  LET d == Lookup(DbsOf(ci), cacheKey) IN
  IF Present(d)
  THEN LET r == DbListItems(w, d, cacheKey)
       IN IF Failed(r.ret) THEN r ELSE [r EXCEPT !.ret = OrElse(r.ret, EmptyPage)]
  ELSE NoCall(w, EmptyPage)

CIremoveItem(w, ci, key, cacheKey) ==
  LET d == Lookup(DbsOf(ci), cacheKey) IN
  IF ~Truthy(cacheKey) THEN LocalRemoveItem(w, ci.local, key)
  ELSE IF Present(d) THEN DbRemoveItem(w, d, cacheKey, key)
       ELSE NoCall(w, Null)

\* setItem that ignores cacheKey and always writes localStorage
CIsetItemLocalOnly(w, ci, key, value, cacheKey) ==
  LET r == LocalSetItem(w, ci.local, key, value) IN [r EXCEPT !.ret = value]

CIsetItem(w, ci, key, value, cacheKey) ==
  LET d == Lookup(DbsOf(ci), cacheKey) IN
  IF ~Truthy(cacheKey)
  THEN LET r == LocalSetItem(w, ci.local, key, value) IN [r EXCEPT !.ret = value]
  ELSE IF Present(d) THEN DbPutItem(w, d, cacheKey, key, value)
       ELSE NoCall(w, Null)

\* what reading db.clearItems throws when db is null or undefined (shape
\* is DbNull or NoDb, written as the text has it)
ErrReadClearItems(shape) ==
  "TypeError: Cannot read properties of " \o shape \o " (reading 'clearItems')"

\* a cache interface function that throws synchronously: its result has err
ThrowIn(w, msg) == [w |-> w, calls |-> <<>>, ret |-> Undef, err |-> msg]
Threw(r) == "err" \in DOMAIN r

\* Promise.all over Object.values(dbs): db.clearItems() of every database
\* that has it, Promise.resolve(true) for the others, in the order of the
\* map's keys; ret is the array of the results.  The read of db.clearItems
\* throws at a value that is null or undefined, and no later value is
\* visited
RECURSIVE ClearEach(_, _)
ClearEach(w, dbs) ==
  IF dbs = <<>> THEN NoCall(w, <<>>)
  ELSE IF Head(dbs).shape \in {DbNull, NoDb}
  THEN ThrowIn(w, ErrReadClearItems(Head(dbs).shape))
  ELSE LET r == IF HasClearItems(Head(dbs).shape)
                THEN DbClearItems(w, Head(dbs).shape, Head(dbs).name)
                ELSE NoCall(w, "true")
           rest == ClearEach(r.w, Tail(dbs))
       IN IF Threw(rest) THEN [rest EXCEPT !.calls = r.calls \o @]
          ELSE [w |-> rest.w, calls |-> r.calls \o rest.calls, ret |-> <<r.ret>> \o rest.ret]

\* clearItems whose "all" clears localStorage and no database
CIclearItemsLocalOnly(w, ci, cacheKey) ==
  LET d == Lookup(DbsOf(ci), cacheKey) IN
  IF ~Truthy(cacheKey) \/ cacheKey = "all" THEN LocalClear(w, ci.local)
  ELSE IF Present(d) /\ HasClearItems(d)
       THEN DbClearItems(w, d, cacheKey)
       ELSE NoCall(w, Null)

\* clearItems that clears localStorage for a named database too
CIclearItemsNamedAlsoLocal(w, ci, cacheKey) ==
  LET d == Lookup(DbsOf(ci), cacheKey) IN
  IF ~Truthy(cacheKey) THEN LocalClear(w, ci.local)
  ELSE LET r == LocalClear(w, ci.local)
           rest == IF cacheKey = "all" THEN ClearEach(r.w, DbsOf(ci))
                   ELSE IF Present(d) /\ HasClearItems(d)
                        THEN DbClearItems(r.w, d, cacheKey)
                        ELSE NoCall(r.w, Null)
       IN IF Threw(rest) THEN [rest EXCEPT !.calls = r.calls \o @]
          ELSE [w |-> rest.w, calls |-> r.calls \o rest.calls, ret |-> Undef]

CIclearItems(w, ci, cacheKey) ==
  LET d == Lookup(DbsOf(ci), cacheKey) IN
  IF ~Truthy(cacheKey) THEN LocalClear(w, ci.local)
  ELSE IF cacheKey = "all"
       THEN LET r == LocalClear(w, ci.local)
                rest == ClearEach(r.w, DbsOf(ci))
            IN [rest EXCEPT !.calls = r.calls \o @]
       ELSE IF Present(d) /\ HasClearItems(d)
            THEN DbClearItems(w, d, cacheKey)
            ELSE NoCall(w, Null)

----------------------------------------------------------------------------
(* ADI.ts: the subscriber registry and notifyAll                           *)

\* an entry pushed by subscribe: the listener itself
GlobalEntry(listener) ==
  [scoped |-> FALSE, id |-> 0, fn |-> listener, caches |-> {}, pred |-> "default"]

\* an entry pushed by subscribeToCaches: a fresh `filter` closure
FilterEntry(id, listener, caches, withinBounds) ==
  [scoped |-> TRUE, id |-> id, fn |-> listener, caches |-> caches, pred |-> withinBounds]

\* withinBounds(k, v, c); the default is (...any) => Array.isArray(any)
WithinBounds(pred, k, v, c) ==
  IF pred = "default" THEN TRUE ELSE Truthy(v)

\* Activates without `caches.includes(c)`: the filter tests the predicate only
ActivatesAnyStore(entry, k, v, c) ==
  IF entry.scoped THEN WithinBounds(entry.pred, k, v, c) ELSE TRUE

\* whether invoking the entry invokes the user's listener
Activates(entry, k, v, c) ==
  IF entry.scoped
  THEN c \in entry.caches /\ WithinBounds(entry.pred, k, v, c)
  ELSE TRUE

\* subscribers.forEach((listen) => listen(key, val, cacheKey)): the user
\* listeners invoked, in order
RECURSIVE Heard(_, _, _, _)
Heard(subs, k, v, c) ==
  IF subs = <<>> THEN <<>>
  ELSE (IF Activates(Head(subs), k, v, c)
        THEN <<[id |-> Head(subs).id, fn |-> Head(subs).fn]>> ELSE <<>>)
       \o Heard(Tail(subs), k, v, c)

\* window.localStorage.getItem(key), as a listener may call it
LocalRead(w, key) ==
  IF key \notin KeyDomain \/ w.local[key] = Absent THEN Null ELSE w.local[key]

\* a fan-out that goes through the registry from its last entry to its first
RECURSIVE Reverse(_)
Reverse(seq) == IF seq = <<>> THEN <<>> ELSE Append(Reverse(Tail(seq)), Head(seq))

NotifyAllLastFirst(w, subs, key, val, cacheKey) ==
  [key |-> key, val |-> val, store |-> cacheKey,
   heard |-> Heard(Reverse(subs), key, val, cacheKey), seen |-> LocalRead(w, key),
   stored |-> StoredAt(w, key, cacheKey)]

\* one fan-out in the world w: the event, the listeners it reached, what a
\* listener reading the key from localStorage sees meanwhile (seen), and
\* what the store of cacheKey holds under the key by then (stored)
NotifyAll(w, subs, key, val, cacheKey) ==
  [key |-> key, val |-> val, store |-> cacheKey, heard |-> Heard(subs, key, val, cacheKey),
   seen |-> LocalRead(w, key), stored |-> StoredAt(w, key, cacheKey)]

----------------------------------------------------------------------------
(* ADI.ts: the synchronous bodies.  Each yields                            *)
(* [w, calls, notes, err, ret]: the world after, the store calls made, the *)
(* fan-outs emitted, the error thrown (NoErr if none) and the value        *)
(* returned.                                                               *)

Throw(w, msg) == [w |-> w, calls |-> <<>>, notes |-> <<>>, err |-> msg, ret |-> Undef]

\* the values of `cache`: undefined until the first start, null after an end
NoCacheYet == [kind |-> Undef, of |-> 0, local |-> Undef, id |-> 0]
NullCache == [kind |-> Null, of |-> 0, local |-> Undef, id |-> 0]
IsAdapter(c) == c.kind \notin {Undef, Null}

\* cache?.setItem / cache?.removeItem / cache?.getItem / cache?.listItems
ViaCache(w, r) == IF IsAdapter(cache) THEN r ELSE NoCall(w, Undef)

\* cacheItem with the key check ahead of the initialization check
CacheItemBodyKeyFirst(w, key, value, cacheKey) ==
  IF ~Truthy(key) THEN Throw(w, ErrNoKey)
  ELSE IF ~initialized THEN Throw(w, ErrNotInit)
  ELSE LET r == IF Truthy(value)
                THEN ViaCache(w, CIsetItem(w, cache, key, value, cacheKey))
                ELSE ViaCache(w, CIremoveItem(w, cache, key, cacheKey))
       IN [w |-> r.w, calls |-> r.calls,
           notes |-> <<NotifyAll(r.w, subscribers, key, value, cacheKey)>>,
           err |-> NoErr, ret |-> value]

\* cacheItem that notifies only when it writes
CacheItemBodyQuietRemove(w, key, value, cacheKey) ==
  IF ~initialized THEN Throw(w, ErrNotInit)
  ELSE IF ~Truthy(key) THEN Throw(w, ErrNoKey)
  ELSE LET r == IF Truthy(value)
                THEN ViaCache(w, CIsetItem(w, cache, key, value, cacheKey))
                ELSE ViaCache(w, CIremoveItem(w, cache, key, cacheKey))
       IN [w |-> r.w, calls |-> r.calls,
           notes |-> IF Truthy(value)
                     THEN <<NotifyAll(r.w, subscribers, key, value, cacheKey)>> ELSE <<>>,
           err |-> NoErr, ret |-> value]

\* cacheItem that notifies before it checks the key
CacheItemBodyNotifiesFirst(w, key, value, cacheKey) ==
  IF ~initialized THEN Throw(w, ErrNotInit)
  ELSE IF ~Truthy(key)
  THEN [Throw(w, ErrNoKey) EXCEPT !.notes = <<NotifyAll(w, subscribers, key, value, cacheKey)>>]
  ELSE LET r == IF Truthy(value)
                THEN ViaCache(w, CIsetItem(w, cache, key, value, cacheKey))
                ELSE ViaCache(w, CIremoveItem(w, cache, key, cacheKey))
       IN [w |-> r.w, calls |-> r.calls,
           notes |-> <<NotifyAll(r.w, subscribers, key, value, cacheKey)>>,
           err |-> NoErr, ret |-> value]

\* cacheItem that notifies before it writes or removes
CacheItemBodyNotifyBeforeWrite(w, key, value, cacheKey) ==
  IF ~initialized THEN Throw(w, ErrNotInit)
  ELSE IF ~Truthy(key) THEN Throw(w, ErrNoKey)
  ELSE LET r == IF Truthy(value)
                THEN ViaCache(w, CIsetItem(w, cache, key, value, cacheKey))
                ELSE ViaCache(w, CIremoveItem(w, cache, key, cacheKey))
       IN [w |-> r.w, calls |-> r.calls,
           notes |-> <<NotifyAll(w, subscribers, key, value, cacheKey)>>,
           err |-> NoErr, ret |-> value]

CacheItemBody(w, key, value, cacheKey) ==
  IF ~initialized THEN Throw(w, ErrNotInit)
  ELSE IF ~Truthy(key) THEN Throw(w, ErrNoKey)
  ELSE LET r == IF Truthy(value)
                THEN ViaCache(w, CIsetItem(w, cache, key, value, cacheKey))
                ELSE ViaCache(w, CIremoveItem(w, cache, key, cacheKey))
       IN [w |-> r.w, calls |-> r.calls,
           notes |-> <<NotifyAll(r.w, subscribers, key, value, cacheKey)>>,
           err |-> NoErr, ret |-> value]

\* removeItem without the notifyAll
RemoveItemBodyNoNotify(w, key, cacheKey) ==
  IF ~initialized THEN Throw(w, ErrNotInit)
  ELSE LET r == ViaCache(w, CIremoveItem(w, cache, key, cacheKey))
       IN [w |-> r.w, calls |-> r.calls, notes |-> <<>>, err |-> NoErr, ret |-> Undef]

RemoveItemBody(w, key, cacheKey) ==
  IF ~initialized THEN Throw(w, ErrNotInit)
  ELSE LET r == ViaCache(w, CIremoveItem(w, cache, key, cacheKey))
       IN [w |-> r.w, calls |-> r.calls,
           notes |-> <<NotifyAll(r.w, subscribers, key, Null, cacheKey)>>,
           err |-> NoErr, ret |-> Undef]

\* items.forEach(({key, value, cacheKey}) => cacheItem(key, value, cacheKey))
RECURSIVE CacheEach(_, _)
CacheEach(w, items) ==
  IF items = <<>> THEN [w |-> w, calls |-> <<>>, notes |-> <<>>, err |-> NoErr, ret |-> Undef]
  ELSE LET r == CacheItemBody(w, Head(items).key, Head(items).value, Head(items).cacheKey)
       IN IF r.err # NoErr THEN r
          ELSE LET rest == CacheEach(r.w, Tail(items))
               IN [w |-> rest.w, calls |-> r.calls \o rest.calls,
                   notes |-> r.notes \o rest.notes, err |-> rest.err, ret |-> Undef]

\* cacheMultiple that writes every entry, whatever its key and value, in
\* place of calling cacheItem
RECURSIVE SetEach(_, _)
SetEach(w, items) ==
  IF items = <<>> THEN [w |-> w, calls |-> <<>>, notes |-> <<>>, err |-> NoErr, ret |-> Undef]
  ELSE LET it == Head(items)
           r == ViaCache(w, CIsetItem(w, cache, it.key, it.value, it.cacheKey))
           rest == SetEach(r.w, Tail(items))
       IN [w |-> rest.w, calls |-> r.calls \o rest.calls,
           notes |-> <<NotifyAll(r.w, subscribers, it.key, it.value, it.cacheKey)>> \o rest.notes,
           err |-> NoErr, ret |-> Undef]

CacheMultipleBodySetsEach(w, items) ==
  IF ~initialized THEN Throw(w, ErrNotInit)
  ELSE IF Len(items) = 0 THEN Throw(w, NoErr)
  ELSE SetEach(w, items)

\* cacheMultiple that checks every key before it applies any entry
CacheMultipleBodyAllOrNothing(w, items) ==
  IF ~initialized THEN Throw(w, ErrNotInit)
  ELSE IF Len(items) = 0 THEN Throw(w, NoErr)
  ELSE IF \E i \in 1..Len(items) : ~Truthy(items[i].key) THEN Throw(w, ErrNoKey)
  ELSE CacheEach(w, items)

CacheMultipleBody(w, items) ==
  IF ~initialized THEN Throw(w, ErrNotInit)
  ELSE IF Len(items) = 0 THEN Throw(w, NoErr)
  ELSE CacheEach(w, items)

----------------------------------------------------------------------------
(* The record of a segment                                                 *)

\* a finished synchronous operation
SyncStep(op, key, val, cacheKey, r, wasInit) ==
  [op |-> op, key |-> key, val |-> val, store |-> cacheKey, fb |-> NoFallback,
   read |-> Undef, calls |-> r.calls, notes |-> r.notes, fbCalls |-> 0,
   err |-> r.err, ret |-> r.ret, done |-> TRUE, wasInit |-> wasInit, items |-> <<>>,
   held |-> Undef, inst |-> 0]

\* a lifecycle or registry operation: no store call, no fan-out
PlainStep(op, arg, err) ==
  [op |-> op, key |-> arg, val |-> Undef, store |-> Undef, fb |-> NoFallback,
   read |-> Undef, calls |-> <<>>, notes |-> <<>>, fbCalls |-> 0,
   err |-> err, ret |-> Undef, done |-> TRUE, wasInit |-> initialized, items |-> <<>>,
   held |-> Undef, inst |-> 0]

\* a segment of an async call p: suspended again (done = FALSE) or settled
AsyncStep(p, err, ret, done) ==
  [op |-> p.op, key |-> p.key, val |-> Undef, store |-> p.store, fb |-> p.fb,
   read |-> p.read, calls |-> p.calls, notes |-> p.notes, fbCalls |-> p.fbCalls,
   err |-> err, ret |-> ret, done |-> done, wasInit |-> p.wasInit, items |-> <<>>,
   held |-> Undef, inst |-> 0]

\* an async call that throws before its first await
RejectedCall(op, key, cacheKey, fb, msg) ==
  [op |-> op, key |-> key, val |-> Undef, store |-> cacheKey, fb |-> fb,
   read |-> Undef, calls |-> <<>>, notes |-> <<>>, fbCalls |-> 0,
   err |-> msg, ret |-> Undef, done |-> TRUE, wasInit |-> initialized, items |-> <<>>,
   held |-> Undef, inst |-> 0]

\* the suspended call: op, arguments, where it waits (pc), what the store
\* read yielded, what it has done so far, and the error of an awaited
\* promise that has rejected (err)
Suspended(op, key, cacheKey, fb, pc, read, calls) ==
  [op |-> op, key |-> key, store |-> cacheKey, fb |-> fb, pc |-> pc,
   read |-> read, data |-> read, calls |-> calls, notes |-> <<>>, fbCalls |-> 0,
   wasInit |-> initialized, err |-> NoErr]

----------------------------------------------------------------------------
(* index.ts: validation of the cache map                                   *)

ErrNoMethods(n) == "Invalid ADI interface: DB \"" \o n \o "\" has no methods"
ErrInvalidDB(n) == "Invalid ADI interface for CacheMap DB \"" \o n \o "\""
\* what Object.keys(null) and Object.keys(undefined) throw
ErrTypeKeys == "TypeError: Cannot convert undefined or null to object"

\* validateCacheInterface(db, n): throws (err), or returns valid
ValidateCacheInterface(shape, n) ==
  IF shape \in {DbNull, NoDb} THEN [err |-> ErrTypeKeys, valid |-> FALSE]
  ELSE IF DbKeys(shape) = {} THEN [err |-> ErrNoMethods(n), valid |-> FALSE]
  ELSE [err |-> NoErr,
        valid |-> \A fn \in Required : fn \in DbKeys(shape) /\ IsFunction(shape, fn)]

\* dbNames.reduce(...): once invalid, the remaining names are skipped
RECURSIVE ValidateEach(_, _, _, _)
ValidateEach(map, names, valid, invalidAt) ==
  IF names = <<>> THEN [err |-> NoErr, valid |-> valid, invalidAt |-> invalidAt]
  ELSE IF ~valid THEN ValidateEach(map, Tail(names), valid, invalidAt)
  ELSE LET r == ValidateCacheInterface(Lookup(map, Head(names)), Head(names))
       IN IF r.err # NoErr THEN [err |-> r.err, valid |-> FALSE, invalidAt |-> invalidAt]
          ELSE ValidateEach(map, Tail(names), r.valid,
                            IF r.valid THEN invalidAt ELSE Head(names))

\* validateCacheMap(cacheMap): the error it throws, NoErr if it returns
ValidateCacheMap(map) ==
  LET r == ValidateEach(map, MapOrder(map), Len(MapOrder(map)) > 0, "")
  IN IF r.err # NoErr THEN r.err
     ELSE IF r.valid THEN NoErr ELSE ErrInvalidDB(r.invalidAt)

\* what an application may put under a name
Shapes == {DbOk, DbEmpty, DbListNull, DbNoPut, DbNull}

\* the cache maps an application may hand in: none, one or two of the
\* databases items and users, in either order of the keys, and { yes: {} }
Maps ==
  {<<>>, <<DbAt("yes", DbEmpty)>>}
  \cup {<<DbAt(n, a)>> : n \in CacheMap, a \in Shapes}
  \cup {<<DbAt(n, a), DbAt(m, b)>> : <<n, m>> \in {<<"items", "users">>, <<"users", "items">>},
                                    <<a, b>> \in Shapes \X Shapes}

\* a cache map of two databases that keep what they are given, users with
\* the optional clearItems
ValidMap == <<DbAt("items", DbOk), DbAt("users", DbClears)>>

\* the cache map of the index tests: makeDBCache() under items and users
TestsMap == <<DbAt("items", DbFixture), DbAt("users", DbFixture)>>

----------------------------------------------------------------------------
(* Initial state: the module has just been loaded, createDataCacheAPI has  *)
(* returned the first instance, over map, and every store is empty.        *)

InitOver(map) ==
  /\ initialized = FALSE
  /\ cache = NoCacheYet
  /\ subscribers = <<>>
  /\ local = [k \in KeyDomain |-> Absent]
  /\ db = [n \in CacheMap |-> [k \in KeyDomain |-> Absent]]
  /\ unsubs = {}
  /\ nextFilter = 0
  /\ pending = <<>>
  /\ cacheMap = <<map>>
  /\ called = {}
  /\ step = PlainStep("init", Undef, NoErr)

Init == InitOver(ValidMap)

\* the state the index tests begin in
InitTests == InitOver(TestsMap)

Idle == pending = <<>>

----------------------------------------------------------------------------
(* Lifecycle *)

\* every createCacheInterface call returns a new object: one that differs
\* from the only cache interface still referenced, the one held by `cache`
FreshId == IF IsAdapter(cache) THEN 1 - cache.id ELSE 0

\* `window`, where createCacheInterface runs: an object, declared and
\* falsy, or not declared
WindowThere == "window"
WindowFalsy == "falsy"
NoWindow == "not declared"
Windows == {WindowThere, WindowFalsy, NoWindow}
\* what evaluating `window` throws where it is not declared
ErrNoWindow == "ReferenceError: window is not defined"

\* createCacheInterface(dbs) for the cache map of instance i, where window
\* is declared: local = window ? window.localStorage : fallback
CreateCacheInterface(i, win) ==
  [kind |-> "cacheInterface", of |-> i,
   local |-> IF win = WindowThere THEN LocalStorage ELSE FallbackStorage,
   id |-> FreshId]

IsInitialized == initialized

\* ADI.onApplicationStart(config)
ADIStart(config) ==
  IF IsInitialized THEN UNCHANGED <<cache, initialized>>
  ELSE /\ cache' = config
       /\ initialized' = TRUE

\* onApplicationStart() of instance i: validateCacheMap(cacheMap), then
\* createCacheInterface(cacheMap), which throws where window is not
\* declared, then ADI.onApplicationStart of the result
InstanceStart(i, win) ==
  LET invalid == ValidateCacheMap(cacheMap[i])
      err == IF invalid # NoErr THEN invalid
             ELSE IF win = NoWindow THEN ErrNoWindow ELSE NoErr
  IN /\ IF err # NoErr THEN UNCHANGED <<cache, initialized>>
        ELSE ADIStart(CreateCacheInterface(i, win))
     /\ step' = [PlainStep("start", Undef, err) EXCEPT !.read = cache.kind, !.inst = i]
     /\ UNCHANGED <<subscribers, local, db, unsubs, nextFilter, pending, cacheMap, called>>

\* onApplicationStart() of any instance, in a browser
OnApplicationStart == \E i \in 1..Len(cacheMap) : InstanceStart(i, WindowThere)

\* an end that clears the flag and keeps the cache interface
EndKeepsCache ==
  /\ initialized' = FALSE
  /\ step' = PlainStep("end", Undef, NoErr)
  /\ UNCHANGED <<cache, subscribers, local, db, unsubs, nextFilter, pending, cacheMap, called>>

\* an end that also empties the registry
EndClearsSubscribers ==
  /\ cache' = NullCache
  /\ initialized' = FALSE
  /\ subscribers' = <<>>
  /\ step' = PlainStep("end", Undef, NoErr)
  /\ UNCHANGED <<local, db, unsubs, nextFilter, pending, cacheMap, called>>

OnApplicationEnd ==
  /\ cache' = NullCache
  /\ initialized' = FALSE
  /\ step' = PlainStep("end", Undef, NoErr)
  /\ UNCHANGED <<subscribers, local, db, unsubs, nextFilter, pending, cacheMap, called>>

\* createDataCacheAPI(map): validateCacheMap(map), then one more instance,
\* over map; every instance shares the module state of ADI.ts
CreateDataCacheAPI(map) ==
  LET err == ValidateCacheMap(map) IN
  /\ err = NoErr => Len(cacheMap) < MaxInstances
  /\ cacheMap' = IF err = NoErr THEN Append(cacheMap, map) ELSE cacheMap
  /\ step' = [PlainStep("createDataCacheAPI", Undef, err)
                EXCEPT !.val = map, !.inst = IF err = NoErr THEN Len(cacheMap) + 1 ELSE 0]
  /\ UNCHANGED <<initialized, cache, subscribers, local, db, unsubs, nextFilter, pending, called>>

\* the application changes the cache map object it handed to instance i
MutateCacheMap(i, map) ==
  /\ map # cacheMap[i]
  /\ cacheMap' = [cacheMap EXCEPT ![i] = map]
  /\ step' = [PlainStep("mutateCacheMap", Undef, NoErr) EXCEPT !.val = map, !.inst = i]
  /\ UNCHANGED <<initialized, cache, subscribers, local, db, unsubs, nextFilter, pending, called>>

----------------------------------------------------------------------------
(* Synchronous store operations *)

Apply(r) ==
  /\ local' = r.w.local
  /\ db' = r.w.db

CacheItem(key, value, cacheKey) ==
  LET r == CacheItemBody(World, key, value, cacheKey) IN
  /\ Apply(r)
  /\ step' = SyncStep("cacheItem", key, value, cacheKey, r, initialized)
  /\ UNCHANGED <<initialized, cache, subscribers, unsubs, nextFilter, pending, cacheMap, called>>

CacheMultiple(items) ==
  LET r == CacheMultipleBody(World, items) IN
  /\ Apply(r)
  /\ step' = [SyncStep("cacheMultiple", Undef, Undef, Undef, r, initialized)
                EXCEPT !.items = items]
  /\ UNCHANGED <<initialized, cache, subscribers, unsubs, nextFilter, pending, cacheMap, called>>

RemoveItem(key, cacheKey) ==
  LET r == RemoveItemBody(World, key, cacheKey) IN
  /\ Apply(r)
  /\ step' = SyncStep("removeItem", key, Undef, cacheKey, r, initialized)
  /\ UNCHANGED <<initialized, cache, subscribers, unsubs, nextFilter, pending, cacheMap, called>>

\* clearItems(cacheKey) of the instance: gated like the other operations,
\* then the cache interface's clearItems, whose throw is the call's; no
\* fan-out
ClearItemsBody(w, cacheKey) ==
  IF ~initialized THEN Throw(w, ErrNotInit)
  ELSE LET r == ViaCache(w, CIclearItems(w, cache, cacheKey))
       IN [w |-> r.w, calls |-> r.calls, notes |-> <<>>,
           err |-> IF Threw(r) THEN r.err ELSE NoErr, ret |-> Undef]

ClearItems(cacheKey) ==
  LET r == ClearItemsBody(World, cacheKey) IN
  /\ Apply(r)
  /\ step' = SyncStep("clearItems", Undef, Undef, cacheKey, r, initialized)
  /\ UNCHANGED <<initialized, cache, subscribers, unsubs, nextFilter, pending, cacheMap, called>>

----------------------------------------------------------------------------
(* Registry operations *)

\* unsubscribe(listener)(): subscribers.filter((s) => s !== listener)
Without(subs, entry) == SelectSeq(subs, LAMBDA s : s # entry)

Includes(subs, entry) == \E i \in 1..Len(subs) : subs[i] = entry

\* subscribe without the `subscribers.includes(listener)` check
SubscribeNoDedupe(listener) ==
  /\ IF listener = NotAFunction
     THEN /\ step' = PlainStep("subscribe", listener, ErrSubscriber)
          /\ UNCHANGED <<subscribers, unsubs>>
     ELSE /\ subscribers' = Append(subscribers, GlobalEntry(listener))
          /\ unsubs' = unsubs \cup {GlobalEntry(listener)}
          /\ step' = [PlainStep("subscribe", listener, NoErr) EXCEPT !.ret = "unsubscribe"]
  /\ UNCHANGED <<initialized, cache, local, db, nextFilter, pending, cacheMap, called>>

Subscribe(listener) ==
  /\ IF listener = NotAFunction
     THEN /\ step' = PlainStep("subscribe", listener, ErrSubscriber)
          /\ UNCHANGED <<subscribers, unsubs>>
     ELSE IF Includes(subscribers, GlobalEntry(listener))
     THEN /\ step' = [PlainStep("subscribe", listener, NoErr) EXCEPT !.ret = "noOp"]
          /\ UNCHANGED <<subscribers, unsubs>>
     ELSE /\ subscribers' = Append(subscribers, GlobalEntry(listener))
          /\ unsubs' = unsubs \cup {GlobalEntry(listener)}
          /\ step' = [PlainStep("subscribe", listener, NoErr) EXCEPT !.ret = "unsubscribe"]
  /\ UNCHANGED <<initialized, cache, local, db, nextFilter, pending, cacheMap, called>>

\* subscribeToCaches that checks the cache names before the listener
SubscribeToCachesScopeFirst(listener, caches, withinBounds) ==
  /\ IF caches = {}
     THEN /\ step' = [PlainStep("subscribeToCaches", listener, ErrNoCaches)
                        EXCEPT !.val = caches]
          /\ UNCHANGED <<subscribers, unsubs, nextFilter>>
     ELSE IF listener = NotAFunction
     THEN /\ step' = [PlainStep("subscribeToCaches", listener, ErrSubscriber)
                        EXCEPT !.val = caches]
          /\ UNCHANGED <<subscribers, unsubs, nextFilter>>
     ELSE LET filter == FilterEntry(nextFilter + 1, listener, caches, withinBounds) IN
          /\ nextFilter' = nextFilter + 1
          /\ subscribers' = Append(subscribers, filter)
          /\ unsubs' = unsubs \cup {filter}
          /\ step' = [PlainStep("subscribeToCaches", listener, NoErr)
                        EXCEPT !.ret = "unsubscribe", !.val = caches]
  /\ UNCHANGED <<initialized, cache, local, db, pending, cacheMap, called>>

\* subscribeToCaches that, like subscribe, registers a listener only once
SubscribeToCachesDedupes(listener, caches, withinBounds) ==
  /\ IF listener = NotAFunction
     THEN /\ step' = [PlainStep("subscribeToCaches", listener, ErrSubscriber)
                        EXCEPT !.val = caches]
          /\ UNCHANGED <<subscribers, unsubs, nextFilter>>
     ELSE IF caches = {}
     THEN /\ step' = [PlainStep("subscribeToCaches", listener, ErrNoCaches)
                        EXCEPT !.val = caches]
          /\ UNCHANGED <<subscribers, unsubs, nextFilter>>
     ELSE IF \E i \in 1..Len(subscribers) : subscribers[i].fn = listener
     THEN /\ nextFilter' = nextFilter + 1
          /\ step' = [PlainStep("subscribeToCaches", listener, NoErr)
                        EXCEPT !.ret = "unsubscribe", !.val = caches]
          /\ UNCHANGED <<subscribers, unsubs>>
     ELSE LET filter == FilterEntry(nextFilter + 1, listener, caches, withinBounds) IN
          /\ nextFilter' = nextFilter + 1
          /\ subscribers' = Append(subscribers, filter)
          /\ unsubs' = unsubs \cup {filter}
          /\ step' = [PlainStep("subscribeToCaches", listener, NoErr)
                        EXCEPT !.ret = "unsubscribe", !.val = caches]
  /\ UNCHANGED <<initialized, cache, local, db, pending, cacheMap, called>>

SubscribeToCaches(listener, caches, withinBounds) ==
  /\ IF listener = NotAFunction
     THEN /\ step' = [PlainStep("subscribeToCaches", listener, ErrSubscriber)
                        EXCEPT !.val = caches]
          /\ UNCHANGED <<subscribers, unsubs, nextFilter>>
     ELSE IF caches = {}
     THEN /\ step' = [PlainStep("subscribeToCaches", listener, ErrNoCaches)
                        EXCEPT !.val = caches]
          /\ UNCHANGED <<subscribers, unsubs, nextFilter>>
     ELSE LET filter == FilterEntry(nextFilter + 1, listener, caches, withinBounds) IN
          /\ nextFilter' = nextFilter + 1
          /\ subscribers' = Append(subscribers, filter)
          /\ unsubs' = unsubs \cup {filter}
          /\ step' = [PlainStep("subscribeToCaches", listener, NoErr)
                        EXCEPT !.ret = "unsubscribe", !.val = caches]
  /\ UNCHANGED <<initialized, cache, local, db, pending, cacheMap, called>>

\* an unsubscribe that removes every entry of the same user listener
UnsubscribeByListener(entry) ==
  /\ entry \in unsubs
  /\ subscribers' = SelectSeq(subscribers, LAMBDA s : s.fn # entry.fn)
  /\ called' = called \cup {entry}
  /\ step' = [PlainStep("unsubscribe", entry.fn, NoErr) EXCEPT !.val = entry]
  /\ UNCHANGED <<initialized, cache, local, db, unsubs, nextFilter, pending, cacheMap>>

\* calling an unsubscribe closure handed out earlier
Unsubscribe(entry) ==
  /\ entry \in unsubs
  /\ subscribers' = Without(subscribers, entry)
  /\ called' = called \cup {entry}
  /\ step' = [PlainStep("unsubscribe", entry.fn, NoErr) EXCEPT !.val = entry]
  /\ UNCHANGED <<initialized, cache, local, db, unsubs, nextFilter, pending, cacheMap>>

\* calling noOp, what subscribe returns for a listener already registered
NoOp ==
  /\ step' = PlainStep("noOp", Undef, NoErr)
  /\ UNCHANGED <<initialized, cache, subscribers, local, db, unsubs, nextFilter,
                 pending, cacheMap, called>>

----------------------------------------------------------------------------
(* Async operations.  A call runs up to its first await and is appended to *)
(* `pending`; each later segment runs from one await to the next.  A       *)
(* segment yields [status, p, w, ret, err]: "suspended" (p is the call as  *)
(* it waits now), "returned" or "thrown".                                  *)

\* what the fallback resolves to; the defaults are () => Promise.resolve(null)
\* for getItem / publishItem and () => Promise.resolve([]) for the lists
FbValue(p) ==
  IF p.fb # NoFallback THEN p.fb
  ELSE IF p.op \in {"listItems", "publishItems"} THEN EmptyArr ELSE Null

Suspend(p, w) == [status |-> "suspended", p |-> p, w |-> w, ret |-> Undef, err |-> NoErr]
Return(p, w, ret) == [status |-> "returned", p |-> p, w |-> w, ret |-> ret, err |-> NoErr]
Reject(p, w, msg) == [status |-> "thrown", p |-> p, w |-> w, ret |-> Undef, err |-> msg]

\* getItem that returns the fallback's value without caching it
GetItemSegmentNoCache(p, w) ==
  IF p.pc = "read"
  THEN IF Failed(p.data) THEN Reject(p, w, ErrOf(p.data))
       ELSE IF ~Truthy(p.data)
       THEN Suspend([p EXCEPT !.pc = "fallback", !.fbCalls = @ + 1], w)
       ELSE Return(p, w, p.data)
  ELSE Return([p EXCEPT !.data = FbValue(p)], w, FbValue(p))

\* getItem that notifies on a hit too
GetItemSegmentNotifyHit(p, w) ==
  IF p.pc = "read"
  THEN IF Failed(p.data) THEN Reject(p, w, ErrOf(p.data))
       ELSE IF ~Truthy(p.data)
       THEN Suspend([p EXCEPT !.pc = "fallback", !.fbCalls = @ + 1], w)
       ELSE Return([p EXCEPT !.notes = Append(@, NotifyAll(w, subscribers, p.key, p.data, p.store))],
                   w, p.data)
  ELSE LET data == FbValue(p)
           r == CacheItemBody(w, p.key, data, p.store)
           q == [p EXCEPT !.data = data, !.calls = @ \o r.calls, !.notes = @ \o r.notes]
       IN IF r.err # NoErr THEN Reject(q, r.w, r.err) ELSE Return(q, r.w, r.ret)

\* getItem that looks at the store again once the fallback has resolved and
\* returns what another call has written there meanwhile
GetItemSegmentKeepsNewer(p, w) ==
  IF p.pc = "read"
  THEN IF Failed(p.data) THEN Reject(p, w, ErrOf(p.data))
       ELSE IF ~Truthy(p.data)
       THEN Suspend([p EXCEPT !.pc = "fallback", !.fbCalls = @ + 1], w)
       ELSE Return(p, w, p.data)
  ELSE IF StoredAt(w, p.key, p.store) # Absent
  THEN Return([p EXCEPT !.data = StoredAt(w, p.key, p.store)], w, StoredAt(w, p.key, p.store))
  ELSE LET data == FbValue(p)
           r == CacheItemBody(w, p.key, data, p.store)
           q == [p EXCEPT !.data = data, !.calls = @ \o r.calls, !.notes = @ \o r.notes]
       IN IF r.err # NoErr THEN Reject(q, r.w, r.err) ELSE Return(q, r.w, r.ret)

\* another suspended getItem for the same key and store waits on its fallback
InFlight(p) ==
  \E j \in 1..Len(pending) :
    /\ pending[j].op = "getItem" /\ pending[j].pc = "fallback"
    /\ pending[j].key = p.key /\ pending[j].store = p.store

\* getItem that joins a miss already in flight for its key and store: it
\* invokes no fallback of its own
GetItemSegmentCoalesces(p, w) ==
  IF p.pc = "read"
  THEN IF Failed(p.data) THEN Reject(p, w, ErrOf(p.data))
       ELSE IF ~Truthy(p.data)
       THEN IF InFlight(p) THEN Suspend([p EXCEPT !.pc = "fallback"], w)
            ELSE Suspend([p EXCEPT !.pc = "fallback", !.fbCalls = @ + 1], w)
       ELSE Return(p, w, p.data)
  ELSE LET data == FbValue(p)
           r == CacheItemBody(w, p.key, data, p.store)
           q == [p EXCEPT !.data = data, !.calls = @ \o r.calls, !.notes = @ \o r.notes]
       IN IF r.err # NoErr THEN Reject(q, r.w, r.err) ELSE Return(q, r.w, r.ret)

\* getItem after `await cache?.getItem(key, cacheKey)` (pc = "read"; the
\* await throws when the promise rejected) and after `await fallback()`
\* (pc = "fallback")
GetItemSegment(p, w) ==
  IF p.pc = "read"
  THEN IF Failed(p.data) THEN Reject(p, w, ErrOf(p.data))
       ELSE IF ~Truthy(p.data)
       THEN Suspend([p EXCEPT !.pc = "fallback", !.fbCalls = @ + 1], w)
       ELSE Return(p, w, p.data)
  ELSE LET data == FbValue(p)
           r == CacheItemBody(w, p.key, data, p.store)
           q == [p EXCEPT !.data = data, !.calls = @ \o r.calls, !.notes = @ \o r.notes]
       IN IF r.err # NoErr THEN Reject(q, r.w, r.err) ELSE Return(q, r.w, r.ret)

\* publishItem without its own notifyAll
PublishItemSegmentSilent(p, w) ==
  IF p.pc = "rejected" THEN Reject(p, w, p.err)
  ELSE IF p.pc = "publish" THEN Return(p, w, Undef)
  ELSE LET g == GetItemSegment(p, w)
       IN IF g.status = "returned"
          THEN Suspend([g.p EXCEPT !.pc = "publish", !.data = g.ret], g.w)
          ELSE IF g.status = "thrown"
          THEN Suspend([g.p EXCEPT !.pc = "rejected", !.err = g.err], g.w)
          ELSE g

\* publishItem that leaves the notification to getItem when the read missed
PublishItemSegmentOnceOnMiss(p, w) ==
  IF p.pc = "rejected" THEN Reject(p, w, p.err)
  ELSE IF p.pc = "publish"
  THEN IF p.fbCalls > 0 THEN Return(p, w, Undef)
       ELSE Return([p EXCEPT !.notes = Append(@, NotifyAll(w, subscribers, p.key, p.data, p.store))],
                   w, Undef)
  ELSE LET g == GetItemSegment(p, w)
       IN IF g.status = "returned"
          THEN Suspend([g.p EXCEPT !.pc = "publish", !.data = g.ret], g.w)
          ELSE IF g.status = "thrown"
          THEN Suspend([g.p EXCEPT !.pc = "rejected", !.err = g.err], g.w)
          ELSE g

\* publishItem: `await getItem(key, cacheKey, fallback)`, then notifyAll.
\* getItem is an async function: when it returns or throws, its promise
\* settles, and publishItem goes on in a later job, to its notifyAll
\* (pc = "publish") or to throw what getItem threw (pc = "rejected", the
\* error kept in err).  start() and end() can run between the two jobs.
PublishItemSegment(p, w) ==
  IF p.pc = "rejected" THEN Reject(p, w, p.err)
  ELSE IF p.pc = "publish"
  THEN Return([p EXCEPT !.notes = Append(@, NotifyAll(w, subscribers, p.key, p.data, p.store))],
              w, Undef)
  ELSE LET g == GetItemSegment(p, w)
       IN IF g.status = "returned"
          THEN Suspend([g.p EXCEPT !.pc = "publish", !.data = g.ret], g.w)
          ELSE IF g.status = "thrown"
          THEN Suspend([g.p EXCEPT !.pc = "rejected", !.err = g.err], g.w)
          ELSE g

\* listItems after `await cache?.listItems(opts)` (pc = "list") and after
\* `await fallback()` (pc = "fallback")
ListItemsSegment(p, w) ==
  IF p.pc = "list"
  THEN IF Failed(p.data) THEN Reject(p, w, ErrOf(p.data))
       ELSE IF ~Truthy(p.data)
       THEN Suspend([p EXCEPT !.pc = "fallback", !.fbCalls = @ + 1], w)
       ELSE Return(p, w, p.data)
  ELSE Return([p EXCEPT !.data = FbValue(p)], w, FbValue(p))

\* publishItems without its notifyAll
PublishItemsSegmentSilent(p, w) ==
  IF p.pc = "refused" THEN Reject(p, w, ErrNotInit)
  ELSE IF p.pc = "rejected" THEN Reject(p, w, p.err)
  ELSE IF p.pc = "publish" THEN Return(p, w, Undef)
  ELSE LET g == ListItemsSegment(p, w)
       IN IF g.status = "returned"
          THEN Suspend([g.p EXCEPT !.pc = "publish", !.data = g.ret], g.w)
          ELSE IF g.status = "thrown"
          THEN Suspend([g.p EXCEPT !.pc = "rejected", !.err = g.err], g.w)
          ELSE g

\* publishItems: `await listItems(opts, fallback)`, which throws, in a job
\* of its own, what listItems threw when it was called (pc = "refused") or
\* after its await (pc = "rejected"), then notifyAll("all", ...)
PublishItemsSegment(p, w) ==
  IF p.pc = "refused" THEN Reject(p, w, ErrNotInit)
  ELSE IF p.pc = "rejected" THEN Reject(p, w, p.err)
  ELSE IF p.pc = "publish"
  THEN Return([p EXCEPT !.notes = Append(@, NotifyAll(w, subscribers, AllKey, p.data, p.store))],
              w, Undef)
  ELSE LET g == ListItemsSegment(p, w)
       IN IF g.status = "returned"
          THEN Suspend([g.p EXCEPT !.pc = "publish", !.data = g.ret], g.w)
          ELSE IF g.status = "thrown"
          THEN Suspend([g.p EXCEPT !.pc = "rejected", !.err = g.err], g.w)
          ELSE g

Drop(seq, i) == SubSeq(seq, 1, i - 1) \o SubSeq(seq, i + 1, Len(seq))

\* the state after a segment of pending[i]; the step keeps what the store
\* held under the call's key when the segment began
Settle(i, g) ==
  /\ local' = g.w.local
  /\ db' = g.w.db
  /\ pending' = IF g.status = "suspended" THEN [pending EXCEPT ![i] = g.p]
                ELSE Drop(pending, i)
  /\ step' = [AsyncStep(g.p, g.err, g.ret, g.status # "suspended")
                EXCEPT !.held = StoredAt(World, g.p.key, g.p.store)]
  /\ UNCHANGED <<initialized, cache, subscribers, unsubs, nextFilter, cacheMap, called>>

\* the call of an async operation that reads the store first
Await(op, key, cacheKey, fb, pc, r) ==
  LET p == Suspended(op, key, cacheKey, fb, pc, r.ret, r.calls) IN
  /\ pending' = Append(pending, p)
  /\ step' = AsyncStep(p, NoErr, Undef, FALSE)
  /\ UNCHANGED <<initialized, cache, subscribers, local, db, unsubs, nextFilter, cacheMap, called>>

Refuse(op, key, cacheKey, fb) ==
  /\ step' = RejectedCall(op, key, cacheKey, fb, ErrNotInit)
  /\ UNCHANGED <<initialized, cache, subscribers, local, db, unsubs, nextFilter, pending, cacheMap, called>>

GetItem(key, cacheKey, fb) ==
  IF ~initialized THEN Refuse("getItem", key, cacheKey, fb)
  ELSE Await("getItem", key, cacheKey, fb, "read",
             ViaCache(World, CIgetItem(World, cache, key, cacheKey)))

PublishItem(key, cacheKey, fb) ==
  IF ~initialized THEN Refuse("publishItem", key, cacheKey, fb)
  ELSE Await("publishItem", key, cacheKey, fb, "read",
             ViaCache(World, CIgetItem(World, cache, key, cacheKey)))

\* listItems without the `if (!opts.cacheKey) return []`
ListItemsNoShortcut(cacheKey, fb) ==
  IF ~initialized THEN Refuse("listItems", Undef, cacheKey, fb)
  ELSE Await("listItems", Undef, cacheKey, fb, "list",
             ViaCache(World, CIlistItems(World, cache, cacheKey)))

ListItems(cacheKey, fb) ==
  IF ~initialized THEN Refuse("listItems", Undef, cacheKey, fb)
  ELSE IF ~Truthy(cacheKey)
  THEN /\ step' = [RejectedCall("listItems", Undef, cacheKey, fb, NoErr)
                     EXCEPT !.ret = EmptyArr]
       /\ UNCHANGED <<initialized, cache, subscribers, local, db, unsubs, nextFilter, pending, cacheMap, called>>
  ELSE Await("listItems", Undef, cacheKey, fb, "list",
             ViaCache(World, CIlistItems(World, cache, cacheKey)))

\* publishItems has no check of its own and goes straight to
\* `await listItems(opts, fallback)`: listItems has thrown (its promise is
\* rejected, pc = "refused"), or has returned [] for a missing cacheKey, or
\* awaits the cache interface.  Whichever it is, publishItems is suspended
\* when it returns its promise.
PublishItems(cacheKey, fb) ==
  IF ~initialized
  THEN Await("publishItems", AllKey, cacheKey, fb, "refused", NoCall(World, Undef))
  ELSE IF ~Truthy(cacheKey)
  THEN Await("publishItems", AllKey, cacheKey, fb, "publish", NoCall(World, EmptyArr))
  ELSE Await("publishItems", AllKey, cacheKey, fb, "list",
             ViaCache(World, CIlistItems(World, cache, cacheKey)))

ResumeGetItem(i) ==
  /\ pending[i].op = "getItem"
  /\ Settle(i, GetItemSegment(pending[i], World))

ResumePublishItem(i) ==
  /\ pending[i].op = "publishItem"
  /\ Settle(i, PublishItemSegment(pending[i], World))

ResumeListItems(i) ==
  /\ pending[i].op = "listItems"
  /\ Settle(i, ListItemsSegment(pending[i], World))

ResumePublishItems(i) ==
  /\ pending[i].op = "publishItems"
  /\ Settle(i, PublishItemsSegment(pending[i], World))

----------------------------------------------------------------------------
(* The instance in use: every call is awaited before the next one is made, *)
(* except that the application may start or end while a call is suspended. *)

BatchItem(key, value, cacheKey) == [key |-> key, value |-> value, cacheKey |-> cacheKey]

\* the arrays handed to cacheMultiple
Batches ==
  { <<>>,
    <<BatchItem("k", Num1, "users")>>,
    <<BatchItem("k", Num1, "users"), BatchItem("k", Null, Undef)>>,
    <<BatchItem("k", Num1, Undef), BatchItem(EmptyKey, Num1, "users"),
      BatchItem("k", Num1, "users")>>,
    <<BatchItem("k", Num1, "users"), BatchItem("k", Str1, "users"),
      BatchItem("k", Num1, Undef), BatchItem("k", Str1, Undef)>> }

CallCacheItem == Idle /\ \E k \in CacheKeys, v \in CacheValues, c \in StoreArgs : CacheItem(k, v, c)
CallCacheMultiple == Idle /\ \E items \in Batches : CacheMultiple(items)
CallRemoveItem == Idle /\ \E k \in Keys, c \in StoreArgs : RemoveItem(k, c)
CallClearItems == Idle /\ \E c \in ClearArgs : ClearItems(c)
CallGetItem == Idle /\ \E k \in ReadKeys, c \in StoreArgs, fb \in Fallbacks : GetItem(k, c, fb)
CallPublishItem == Idle /\ \E k \in ReadKeys, c \in StoreArgs, fb \in Fallbacks : PublishItem(k, c, fb)
CallListItems == Idle /\ \E c \in ListArgs, fb \in Fallbacks : ListItems(c, fb)
CallPublishItems == Idle /\ \E c \in ListArgs, fb \in Fallbacks : PublishItems(c, fb)
CallSubscribe == Idle /\ Subscribe("l1")
CallSubscribeToCaches ==
  /\ Idle
  /\ nextFilter < MaxFilters
  /\ \E pr \in Preds : SubscribeToCaches("l2", {"users"}, pr)
Resume ==
  \E i \in 1..Len(pending) :
    ResumeGetItem(i) \/ ResumePublishItem(i) \/ ResumeListItems(i) \/ ResumePublishItems(i)

Next ==
  \/ OnApplicationStart
  \/ OnApplicationEnd
  \/ CallCacheItem
  \/ CallCacheMultiple
  \/ CallRemoveItem
  \/ CallClearItems
  \/ CallGetItem
  \/ CallPublishItem
  \/ CallListItems
  \/ CallPublishItems
  \/ CallSubscribe
  \/ CallSubscribeToCaches
  \/ Resume

Spec == Init /\ [][Next]_vars

----------------------------------------------------------------------------
(* The lifecycle on its own: instances are created over any cache map and *)
(* any of them is started, and ended.                                      *)

CallCreateDataCacheAPI == \E map \in Maps : CreateDataCacheAPI(map)

NextLife ==
  \/ OnApplicationStart
  \/ OnApplicationEnd
  \/ CallCreateDataCacheAPI

SpecLife == Init /\ [][NextLife]_vars

----------------------------------------------------------------------------
(* Instances over cache maps that change: a second instance is created     *)
(* over users alone, the application changes a cache map it handed in (it  *)
(* deletes a database, or puts under users an object without putItem,      *)
(* null, undefined or an object whose listItems is null), starts any       *)
(* instance, with or without a window, ends, caches an item and clears     *)
(* every store.                                                            *)

Mutations ==
  {ValidMap, <<DbAt("items", DbOk)>>,
   <<DbAt("users", DbNoPut), DbAt("items", DbOk)>>,
   <<DbAt("users", DbNull), DbAt("items", DbClears)>>,
   <<DbAt("users", NoDb), DbAt("items", DbClears)>>,
   <<DbAt("users", DbListNull)>>}

InstCreate == CreateDataCacheAPI(<<DbAt("users", DbOk)>>)
InstMutate == \E i \in 1..Len(cacheMap), map \in Mutations : MutateCacheMap(i, map)
InstStart == \E i \in 1..Len(cacheMap), win \in Windows : InstanceStart(i, win)
InstCacheItem == \E c \in {Undef, "users"} : CacheItem("k", Num1, c)
InstClearItems == ClearItems("all")

NextInst ==
  \/ InstStart
  \/ OnApplicationEnd
  \/ InstCreate
  \/ InstMutate
  \/ InstCacheItem
  \/ InstClearItems

SpecInst == Init /\ [][NextInst]_vars

----------------------------------------------------------------------------
\* the operations of Spec, from the state the index tests begin in
SpecTests == InitTests /\ [][Next]_vars

----------------------------------------------------------------------------
(* The registry on its own: listeners subscribe, with valid and invalid    *)
(* arguments, and unsubscribe, while the application starts, ends and      *)
(* removes items (each removeItem is one fan-out).                         *)

RegListeners == Listeners \cup {NotAFunction}
RegScopes == {{}, {"users"}}
RegStores == {Undef, "users", "items"}

RegSubscribe == \E l \in RegListeners : Subscribe(l)
RegSubscribeToCaches ==
  /\ nextFilter < MaxScoped
  /\ \E l \in RegListeners, caches \in RegScopes : SubscribeToCaches(l, caches, "default")
RegUnsubscribe == \E entry \in unsubs : Unsubscribe(entry)
RegNoOp == step.ret = "noOp" /\ NoOp
RegRemoveItem == \E c \in RegStores : RemoveItem("k", c)

NextReg ==
  \/ OnApplicationStart
  \/ OnApplicationEnd
  \/ RegSubscribe
  \/ RegSubscribeToCaches
  \/ RegUnsubscribe
  \/ RegNoOp
  \/ RegRemoveItem

SpecReg == Init /\ [][NextReg]_vars

----------------------------------------------------------------------------
(* Backends that misbehave: between runs the application puts under        *)
(* "items" a database whose calls reject, or whose listItems resolves to   *)
(* null; "users" stays as it is.  The calls name these databases, a name   *)
(* the map has nothing under ("missing") and a name under which it has     *)
(* what every object inherits ("constructor").  One call at a time, as in  *)
(* Spec.                                                                   *)

Backends == {DbOk, DbRejects, DbListsNothing}
BackMaps == {[ValidMap EXCEPT ![1].shape = b] : b \in Backends}
BackStores == {Undef, "users", "items", "missing"} \cup Inherited
BackListStores == {"users", "items", "missing"} \cup Inherited
BackValues == {Str1, Null}
BackFallbacks == {NoFallback, Num1}

BackSwap == Idle /\ \E map \in BackMaps : MutateCacheMap(1, map)
BackCacheItem == Idle /\ \E v \in BackValues, c \in BackStores : CacheItem("k", v, c)
BackRemoveItem == Idle /\ \E c \in BackStores : RemoveItem("k", c)
BackGetItem ==
  Idle /\ \E key \in Keys, c \in BackStores, fb \in BackFallbacks : GetItem(key, c, fb)
BackPublishItem ==
  Idle /\ \E c \in BackStores, fb \in BackFallbacks : PublishItem("k", c, fb)
BackListItems ==
  Idle /\ \E c \in BackListStores, fb \in BackFallbacks : ListItems(c, fb)
BackPublishItems ==
  Idle /\ \E c \in BackListStores, fb \in BackFallbacks : PublishItems(c, fb)
BackSubscribe == Idle /\ Subscribe("l1")

NextBack ==
  \/ OnApplicationStart
  \/ OnApplicationEnd
  \/ BackSwap
  \/ BackCacheItem
  \/ BackRemoveItem
  \/ BackGetItem
  \/ BackPublishItem
  \/ BackListItems
  \/ BackPublishItems
  \/ BackSubscribe
  \/ Resume

SpecBack == Init /\ [][NextBack]_vars

----------------------------------------------------------------------------
(* Overlapping calls: the application does not await a getItem before it   *)
(* makes the next call.  Reads of one key miss and wait on their fallbacks *)
(* while other reads of the key are made and while cacheItem writes it in  *)
(* the database.                                                           *)

ConcCacheItem == CacheItem("k", Str3, "users")
ConcGetItem ==
  /\ Len(pending) < MaxPending
  /\ \E c \in {Undef, "users"}, fb \in {Str1, Str2} : GetItem("k", c, fb)
ConcRemoveItem == Idle /\ \E c \in {Undef, "users"} : RemoveItem("k", c)
ConcSubscribe == Subscribe("l1")
ConcResume == \E i \in 1..Len(pending) : ResumeGetItem(i)

NextConc ==
  \/ OnApplicationStart
  \/ OnApplicationEnd
  \/ ConcCacheItem
  \/ ConcGetItem
  \/ ConcRemoveItem
  \/ ConcSubscribe
  \/ ConcResume

SpecConc == Init /\ [][NextConc]_vars

----------------------------------------------------------------------------
(* Listeners that act.  A listener is application code: it may subscribe   *)
(* another listener, call an unsubscribe closure it holds, or throw.       *)
(* notifyAll is `subscribers.forEach(...)`: forEach visits the elements    *)
(* the array had when it was called; subscribe pushes onto the array and   *)
(* the unsubscribe closure assigns a filtered copy to `subscribers`.       *)

\* when invoked: subscribe("l2")
Adder == "adder"
\* when invoked: calls the closure subscribe("l1") returned, if it has it
Dropper == "dropper"
\* when invoked: throws
Thrower == "thrower"
ErrListener == "listener failure"

\* the registry as a fan-out starts: nothing invoked, nothing thrown
Pass == [subs |-> subscribers, unsubs |-> unsubs, called |-> called,
         heard |-> <<>>, err |-> NoErr]

\* listen(key, val, cacheKey) for the listener of entry e
Invoke(e, f) ==
  LET g == [f EXCEPT !.heard = Append(@, [id |-> e.id, fn |-> e.fn])] IN
  IF e.fn = Thrower THEN [g EXCEPT !.err = ErrListener]
  ELSE IF e.fn = Adder
  THEN IF Includes(g.subs, GlobalEntry("l2")) THEN g
       ELSE [g EXCEPT !.subs = Append(@, GlobalEntry("l2")),
                      !.unsubs = @ \cup {GlobalEntry("l2")}]
  ELSE IF e.fn = Dropper /\ GlobalEntry("l1") \in g.unsubs
  THEN [g EXCEPT !.subs = Without(@, GlobalEntry("l1")),
                 !.called = @ \cup {GlobalEntry("l1")}]
  ELSE g

\* a forEach that looks at the registry as it is now, element by element
RECURSIVE VisitLive(_, _, _, _, _)
VisitLive(i, f, k, v, c) ==
  IF i > Len(f.subs) \/ f.err # NoErr THEN f
  ELSE VisitLive(i + 1,
                 IF Activates(f.subs[i], k, v, c) THEN Invoke(f.subs[i], f) ELSE f,
                 k, v, c)

FanOutLive(k, v, c) == VisitLive(1, Pass, k, v, c)

\* a forEach that catches what a listener throws and goes on
RECURSIVE VisitIsolated(_, _, _, _, _)
VisitIsolated(arr, f, k, v, c) ==
  IF arr = <<>> THEN f
  ELSE VisitIsolated(Tail(arr),
                     IF Activates(Head(arr), k, v, c)
                     THEN [Invoke(Head(arr), f) EXCEPT !.err = NoErr] ELSE f,
                     k, v, c)

FanOutIsolated(k, v, c) == VisitIsolated(subscribers, Pass, k, v, c)

\* forEach over the elements of arr, in order, until a listener throws
RECURSIVE Visit(_, _, _, _, _)
Visit(arr, f, k, v, c) ==
  IF arr = <<>> \/ f.err # NoErr THEN f
  ELSE Visit(Tail(arr),
             IF Activates(Head(arr), k, v, c) THEN Invoke(Head(arr), f) ELSE f,
             k, v, c)

\* notifyAll(key, val, cacheKey) with listeners that act
FanOut(k, v, c) == Visit(subscribers, Pass, k, v, c)

\* cacheItem(key, value, cacheKey): the checks and the store call, then the
\* fan-out; what a listener throws leaves cacheItem
ActCacheItem(key, value, cacheKey) ==
  LET r == CacheItemBody(World, key, value, cacheKey)
      f == FanOut(key, value, cacheKey)
      note == [key |-> key, val |-> value, store |-> cacheKey,
               heard |-> f.heard, seen |-> LocalRead(r.w, key),
               stored |-> StoredAt(r.w, key, cacheKey)]
  IN /\ Apply(r)
     /\ IF r.err # NoErr
        THEN /\ step' = SyncStep("cacheItem", key, value, cacheKey, r, initialized)
             /\ UNCHANGED <<subscribers, unsubs, called>>
        ELSE /\ subscribers' = f.subs
             /\ unsubs' = f.unsubs
             /\ called' = f.called
             /\ step' = SyncStep("cacheItem", key, value, cacheKey,
                                 [r EXCEPT !.notes = <<note>>, !.err = f.err,
                                           !.ret = IF f.err = NoErr THEN value ELSE Undef],
                                 initialized)
     /\ UNCHANGED <<initialized, cache, nextFilter, pending, cacheMap>>

ActSubscribe == \E l \in {"l1", Adder, Dropper, Thrower} : Subscribe(l)
ActUnsubscribe == Unsubscribe(GlobalEntry("l2"))
ActCall == \E v \in {Num1, Null} : ActCacheItem("k", v, "users")

NextAct ==
  \/ OnApplicationStart
  \/ OnApplicationEnd
  \/ ActSubscribe
  \/ ActUnsubscribe
  \/ ActCall

SpecAct == Init /\ [][NextAct]_vars

----------------------------------------------------------------------------
(* Vocabulary of the properties *)

GatedOps ==
  {"cacheItem", "cacheMultiple", "getItem", "publishItem", "listItems",
   "publishItems", "removeItem", "clearItems"}

\* the store a cacheKey argument stands for
ResolvedTarget(cacheKey) == IF Truthy(cacheKey) THEN cacheKey ELSE "local"
Resolves(cacheKey) == ~Truthy(cacheKey) \/ cacheKey \in CacheMap

IsWrite(c) == c.fn \in {"setItem", "putItem"}
IsRemove(c) == c.fn = "removeItem"
IsRead(c) == c.fn \in {"getItem", "listItems"}

\* the write of key -> value on the store cacheKey stands for
WriteCall(key, value, cacheKey) ==
  Call(ResolvedTarget(cacheKey), IF Truthy(cacheKey) THEN "putItem" ELSE "setItem", key, value)
RemoveCall(key, cacheKey) == Call(ResolvedTarget(cacheKey), "removeItem", key, Undef)
ReadCall(key, cacheKey) == Call(ResolvedTarget(cacheKey), "getItem", key, Undef)
ListCall(cacheKey) == Call(cacheKey, "listItems", Undef, Undef)

\* a fan-out carries exactly (key, value, cacheKey)
Carries(note, key, value, cacheKey) ==
  note.key = key /\ note.val = value /\ note.store = cacheKey

\* what the fallback given to the last operation resolves to
StepFbValue == IF step.fb = NoFallback THEN Null ELSE step.fb

\* the last segment settled a getItem / publishItem whose store read missed / hit
Missed(op) == step.op = op /\ step.done /\ step.wasInit /\ ~Truthy(step.read)
Hit(op) == step.op = op /\ step.done /\ step.wasInit /\ Truthy(step.read)

----------------------------------------------------------------------------
(* C1: an operation called while uninitialized fails with 'ADI is not      *)
(* initialized', whatever its arguments, calls no store and notifies       *)
(* nobody.  The call has failed when it returns, except publishItems,      *)
(* whose promise is pending until its await of listItems delivers the      *)
(* error; it then rejects with it even if the ADI was started meanwhile.   *)
C1_UninitializedFails ==
  (step.op \in GatedOps /\ ~step.wasInit) =>
     /\ step.done \/ step.op = "publishItems"
     /\ step.done => step.err = ErrNotInit
     /\ step.calls = <<>>
     /\ step.notes = <<>>

\* cacheItem with an empty key after an end() reports not-initialized
C1_Witness ==
  /\ step.op = "cacheItem" /\ step.key = EmptyKey /\ ~step.wasInit
  /\ cache = NullCache /\ step.err = ErrNotInit

(* C2 as stated: every getItem miss invokes the fallback once, hands its   *)
(* value to the cacheItem write path, notifies once with (key, value,      *)
(* cacheKey) and resolves to the value.                                    *)
C2_MissCaches ==
  /\ step.fbCalls = 1
  /\ step.err = NoErr
  /\ step.ret = StepFbValue
  /\ Len(step.notes) = 1
  /\ Carries(step.notes[1], step.key, StepFbValue, step.store)
  /\ Resolves(step.store) =>
        /\ Len(step.calls) = 2
        /\ step.calls[2] = IF Truthy(StepFbValue)
                           THEN WriteCall(step.key, StepFbValue, step.store)
                           ELSE RemoveCall(step.key, step.store)

C2_Original == Missed("getItem") => C2_MissCaches

(* C2, amended: a getItem miss with a non-empty key, the ADI still         *)
(* initialized when the fallback resolves, invokes the fallback once,      *)
(* hands its value to cacheItem, notifies once and resolves to the value.  *)
C2_MissCachesWhenKeyed ==
  (Missed("getItem") /\ Truthy(step.key) /\ initialized) => C2_MissCaches

C2_Witness ==
  /\ Missed("getItem") /\ step.key = "k" /\ step.store = "users" /\ step.fb = Str1
  /\ db["users"]["k"] = Str1 /\ Len(step.notes) = 1

(* C3: a getItem hit resolves to the value the store read yielded, without *)
(* notification, fallback, write or remove.                                *)
C3_HitIsSilent ==
  Hit("getItem") =>
     /\ step.err = NoErr
     /\ step.ret = step.read
     /\ step.notes = <<>>
     /\ step.fbCalls = 0
     /\ \A i \in 1..Len(step.calls) : IsRead(step.calls[i])

C3_Witness ==
  /\ Hit("getItem") /\ step.key = "k" /\ step.store = "users" /\ step.ret = Num1
  /\ subscribers # <<>>

(* C4 as stated: cacheItem, removeItem and getItem given a database of the *)
(* map call only that database, with putItem(key, value), removeItem(key), *)
(* getItem(key); given no cacheKey they call only localStorage.            *)
RoutedOps == {"cacheItem", "removeItem", "getItem"}

OnlyTarget(calls, target) == \A i \in 1..Len(calls) : calls[i].target = target

C4_Routed(readCall) ==
  (step.op \in RoutedOps /\ step.wasInit /\ Resolves(step.store)) =>
     /\ OnlyTarget(step.calls, ResolvedTarget(step.store))
     /\ \A i \in 1..Len(step.calls) :
          \/ IsRead(step.calls[i]) /\ step.calls[i] = readCall
          \/ IsWrite(step.calls[i]) /\ step.calls[i].key = step.key
          \/ IsRemove(step.calls[i]) /\ step.calls[i] = RemoveCall(step.key, step.store)
     /\ (step.op = "cacheItem" /\ step.err = NoErr /\ Truthy(step.val)) =>
          step.calls = <<WriteCall(step.key, step.val, step.store)>>
     /\ (step.op = "removeItem") => step.calls = <<RemoveCall(step.key, step.store)>>
     /\ (step.op = "getItem") => (Len(step.calls) >= 1 /\ step.calls[1] = readCall)

C4_Original == C4_Routed(ReadCall(step.key, step.store))

(* C4, amended: as stated, except that getItem with the key "all" on a     *)
(* database of the map calls that database's listItems, not getItem(key).  *)
C4_StoreRouting ==
  C4_Routed(IF step.key = AllKey /\ Truthy(step.store)
            THEN ListCall(step.store) ELSE ReadCall(step.key, step.store))

C4_Witness ==
  /\ step.op = "cacheItem" /\ step.store = "users" /\ step.val = Num1
  /\ step.calls = <<Call("users", "putItem", "k", Num1)>>
  /\ local["k"] = Absent /\ db["items"]["k"] = Absent /\ db["users"]["k"] = Num1

(* C5: a cacheItem call made while initialized with a non-empty key emits  *)
(* one fan-out (key, value, cacheKey), reaching every subscribed listener, *)
(* and returns value; also when the value is falsy.                        *)
C5_CacheItemNotifies ==
  (step.op = "cacheItem" /\ step.wasInit /\ Truthy(step.key)) =>
     /\ step.err = NoErr
     /\ step.ret = step.val
     /\ Len(step.notes) = 1
     /\ Carries(step.notes[1], step.key, step.val, step.store)
     /\ \A i \in 1..Len(subscribers) :
          ~subscribers[i].scoped =>
             \E j \in 1..Len(step.notes[1].heard) :
                step.notes[1].heard[j].fn = subscribers[i].fn

C5_Witness ==
  /\ step.op = "cacheItem" /\ step.val = Null /\ step.err = NoErr
  /\ Len(step.notes) = 1 /\ step.notes[1].heard # <<>>
  /\ \E i \in 1..Len(step.calls) : IsRemove(step.calls[i])

(* C6 as stated: cacheItem removes the key exactly when value is null or   *)
(* undefined; any other value, 0 included, is written.                     *)
C6_RemovesOnlyAbsent ==
  (step.op = "cacheItem" /\ step.err = NoErr /\ Resolves(step.store)) =>
     IF step.val \in {Null, Undef}
     THEN step.calls = <<RemoveCall(step.key, step.store)>>
     ELSE step.calls = <<WriteCall(step.key, step.val, step.store)>>

(* C7: a publishItem hit notifies once with (key, stored value, cacheKey)  *)
(* and neither writes, removes nor invokes the fallback.                   *)
C7_PublishHit ==
  Hit("publishItem") =>
     /\ step.err = NoErr
     /\ Len(step.notes) = 1
     /\ Carries(step.notes[1], step.key, step.read, step.store)
     /\ step.fbCalls = 0
     /\ \A i \in 1..Len(step.calls) : IsRead(step.calls[i])

C7_Witness ==
  /\ Hit("publishItem") /\ step.key = "k" /\ step.store = Undef /\ step.read = Str1
  /\ Len(step.notes) = 1 /\ step.notes[1].heard # <<>>

(* C8: removeItem(key, s) while initialized removes key from the store s   *)
(* stands for, and from no other, and notifies once with (key, null, s).   *)
C8_RemoveNotifies ==
  (step.op = "removeItem" /\ step.wasInit) =>
     /\ step.err = NoErr
     /\ step.calls = IF Resolves(step.store)
                     THEN <<RemoveCall(step.key, step.store)>> ELSE <<>>
     /\ Len(step.notes) = 1
     /\ Carries(step.notes[1], step.key, Null, step.store)

C8_Witness ==
  /\ step.op = "removeItem" /\ step.store = "users" /\ step.key = "k" /\ step.wasInit
  /\ step.calls = <<Call("users", "removeItem", "k", Undef)>>
  /\ step.notes[1].heard # <<>>

(* C9: a listener registered with subscribeToCaches is invoked for a       *)
(* fan-out exactly when the event's cacheKey is one of its caches and its  *)
(* predicate holds of the event.                                           *)
InvokedBy(note, entry) ==
  \E j \in 1..Len(note.heard) : note.heard[j].id = entry.id

C9_ScopedListener ==
  \A n \in 1..Len(step.notes) : \A i \in 1..Len(subscribers) :
    subscribers[i].scoped =>
      ( InvokedBy(step.notes[n], subscribers[i])
        <=> /\ step.notes[n].store \in subscribers[i].caches
            /\ (subscribers[i].pred = "isTruthy" => Truthy(step.notes[n].val)) )

C9_Witness ==
  /\ step.op = "cacheItem" /\ step.store = "users" /\ Len(step.notes) = 1
  /\ \E i \in 1..Len(subscribers) :
       /\ subscribers[i].scoped /\ subscribers[i].pred = "isTruthy"
       /\ InvokedBy(step.notes[1], subscribers[i])

(* C10: cache holds a cache interface exactly when initialized is true;    *)
(* after a start both are set, after an end both are cleared, and          *)
(* isInitialized() is the flag.                                            *)
C10_AdapterIffInitialized ==
  /\ IsAdapter(cache) <=> initialized
  /\ IsInitialized <=> initialized
  /\ step.op = "start" => (initialized /\ IsAdapter(cache))
  /\ step.op = "end" => (~initialized /\ ~IsAdapter(cache))

C10_Witness == step.op = "end" /\ cache = NullCache /\ ~initialized /\ pending # <<>>

----------------------------------------------------------------------------
(* Vocabulary of the registry properties *)

SubscribeOps == {"subscribe", "subscribeToCaches"}

\* how often the fan-out invoked the user listener through entry e
Times(note, e) ==
  Cardinality({j \in 1..Len(note.heard) : note.heard[j] = [id |-> e.id, fn |-> e.fn]})

\* the last step was a removeItem that went through: one fan-out
FannedOut == step.op = "removeItem" /\ step.err = NoErr

(* C11: the registry does not depend on the lifecycle.  subscribe and      *)
(* subscribeToCaches with acceptable arguments succeed while the ADI is    *)
(* not initialized and leave the listener registered; no start and no end  *)
(* changes the registry; every fan-out invokes each registered entry whose *)
(* filter admits the event, exactly once.                                  *)
C11_RegistryOutlivesLifecycle ==
  /\ []( ( /\ step.op \in SubscribeOps
           /\ ~step.wasInit
           /\ step.key # NotAFunction
           /\ (step.op = "subscribeToCaches" => step.val # {}) )
         => /\ step.err = NoErr
            /\ \E i \in 1..Len(subscribers) : subscribers[i].fn = step.key )
  /\ [][step'.op \in {"start", "end"} => subscribers' = subscribers]_vars
  /\ []( FannedOut =>
           \A i \in 1..Len(subscribers) :
              Activates(subscribers[i], step.key, Null, step.store)
                => Times(step.notes[1], subscribers[i]) = 1 )

\* a start that follows an end finds two listeners registered
C11_Witness ==
  /\ step.op = "start" /\ step.read = Null /\ step.err = NoErr
  /\ initialized
  /\ Len(subscribers) >= 2

(* C12 as stated: a start while the ADI is initialized changes nothing:    *)
(* initialized stays true, cache keeps the cache interface of the first    *)
(* start, no store is called and nothing is thrown.                        *)
C12_RestartIsNoOp ==
  [][ (step'.op = "start" /\ initialized)
        => /\ initialized'
           /\ cache' = cache
           /\ step'.err = NoErr
           /\ step'.calls = <<>>
           /\ local' = local /\ db' = db ]_vars

(* C13: cacheItem called while initialized with an empty key or none       *)
(* throws 'Item Key was not supplied for caching', calls no store and      *)
(* notifies nobody.                                                        *)
C13_MissingKey ==
  /\ []( (step.op = "cacheItem" /\ step.wasInit /\ ~Truthy(step.key))
         => /\ step.err = ErrNoKey
            /\ step.calls = <<>>
            /\ step.notes = <<>> )
  /\ [][ (step'.op = "cacheItem" /\ ~Truthy(step'.key))
           => (local' = local /\ db' = db) ]_vars

C13_Witness ==
  /\ step.op = "cacheItem" /\ step.wasInit /\ step.key = Undef
  /\ step.err = ErrNoKey
  /\ subscribers # <<>>

(* C14: subscribe and subscribeToCaches throw 'Invalid ADI subscriber' for *)
(* a listener that is not a function, whatever the cache names;            *)
(* subscribeToCaches with a function and no cache name throws              *)
(* 'Subscription requires at least one cache name'; a call that throws     *)
(* leaves the registry as it was.                                          *)
C14_SubscribeValidation ==
  /\ []( (step.op \in SubscribeOps /\ step.key = NotAFunction)
         => step.err = ErrSubscriber )
  /\ []( (step.op = "subscribeToCaches" /\ step.key # NotAFunction /\ step.val = {})
         => step.err = ErrNoCaches )
  /\ [][ (step'.op \in SubscribeOps /\ step'.err # NoErr)
           => subscribers' = subscribers ]_vars

C14_Witness ==
  /\ step.op = "subscribeToCaches" /\ step.key = NotAFunction /\ step.val = {}
  /\ step.err = ErrSubscriber
  /\ subscribers # <<>>

(* C15: subscribe with a listener that is registered leaves the registry   *)
(* unchanged and returns noOp; calling noOp changes nothing; a fan-out     *)
(* invokes a subscribed listener once; the listener leaves the registry    *)
(* only when the unsubscribe closure of its subscribe is called.           *)
C15_DuplicateSubscribe ==
  /\ [][ (step'.op = "subscribe" /\ Includes(subscribers, GlobalEntry(step'.key)))
           => /\ subscribers' = subscribers
              /\ step'.ret = "noOp"
              /\ step'.err = NoErr ]_vars
  /\ [][ step'.op = "noOp" => subscribers' = subscribers ]_vars
  /\ []( FannedOut =>
           \A l \in Listeners :
              Times(step.notes[1], GlobalEntry(l))
                = IF Includes(subscribers, GlobalEntry(l)) THEN 1 ELSE 0 )
  /\ [][ \A l \in Listeners :
           (Includes(subscribers, GlobalEntry(l)) /\ ~Includes(subscribers', GlobalEntry(l)))
             => (step'.op = "unsubscribe" /\ step'.val = GlobalEntry(l)) ]_vars

\* noOp has just been called and the listener is still registered
C15_Witness ==
  /\ step.op = "noOp"
  /\ Includes(subscribers, GlobalEntry("l1"))

(* C16 as stated: calling an unsubscribe closure that has been called      *)
(* before has no effect.                                                   *)
C16_Original ==
  [][ (step'.op = "unsubscribe" /\ step'.val \in called)
        => subscribers' = subscribers ]_vars

(* C16: an unsubscribe closure removes the function it captured (the       *)
(* listener for subscribe, the filter for subscribeToCaches) and nothing   *)
(* else, keeping the order of the rest; a filter that was unsubscribed     *)
(* never returns to the registry and is never invoked again, so calling    *)
(* its closure again changes nothing; a fan-out invokes registered entries *)
(* only.                                                                   *)
C16_UnsubscribeByIdentity ==
  /\ [][ step'.op = "unsubscribe"
           => /\ subscribers' = Without(subscribers, step'.val)
              /\ ~Includes(subscribers', step'.val)
              /\ ((step'.val \in called /\ step'.val.scoped)
                    => subscribers' = subscribers) ]_vars
  /\ []( \A e \in called : e.scoped => ~Includes(subscribers, e) )
  /\ []( \A n \in 1..Len(step.notes) :
           /\ \A e \in called : e.scoped => Times(step.notes[n], e) = 0
           /\ \A j \in 1..Len(step.notes[n].heard) :
                \E i \in 1..Len(subscribers) :
                   /\ subscribers[i].id = step.notes[n].heard[j].id
                   /\ subscribers[i].fn = step.notes[n].heard[j].fn )

\* an entry was unsubscribed while another entry of the same listener stays
C16_Witness ==
  /\ step.op = "unsubscribe"
  /\ Len(subscribers) >= 2
  /\ \E i \in 1..Len(subscribers) : subscribers[i].fn = step.key

----------------------------------------------------------------------------
(* Vocabulary of the validation properties *)

\* some database of the map is not compliant
Offends(map) == \E i \in 1..Len(map) : map[i].shape # DbOk

\* the first database of the map, in key order, that is not compliant
Offender(map) ==
  LET i == CHOOSE i \in 1..Len(map) :
             /\ map[i].shape # DbOk
             /\ \A j \in 1..(i - 1) : map[j].shape = DbOk
  IN map[i].name

\* the error is one of the two that validation builds around a database name
NamesStore(err, n) == err \in {ErrNoMethods(n), ErrInvalidDB(n)}

----------------------------------------------------------------------------
(* Reads of unknown stores and lists *)

\* a settled getItem, called while initialized without a fallback, for a
\* cacheKey that names no database of the cache map
UnknownStoreRead ==
  /\ step.op = "getItem" /\ step.done /\ step.wasInit
  /\ Truthy(step.store) /\ step.store \notin CacheMap
  /\ step.fb = NoFallback

\* resolved to null, no store touched, one fan-out (key, null, cacheKey)
ReadNullAndNotified ==
  /\ step.err = NoErr
  /\ step.ret = Null
  /\ step.calls = <<>>
  /\ Len(step.notes) = 1
  /\ Carries(step.notes[1], step.key, Null, step.store)

ReadThrewNotFunction ==
  /\ step.err = ErrNotFunction
  /\ step.calls = <<>>
  /\ step.fbCalls = 0
  /\ step.notes = <<>>

C19_ListWithoutStore ==
  (step.op = "listItems" /\ step.wasInit /\ ~Truthy(step.store))
    => /\ step.done
       /\ step.err = NoErr
       /\ step.ret = EmptyArr
       /\ step.calls = <<>>
       /\ step.fbCalls = 0
       /\ step.notes = <<>>

C19_Witness ==
  /\ step.op = "listItems" /\ step.wasInit /\ step.store = ""
  /\ step.fb = Str1
  /\ step.ret = EmptyArr
  /\ subscribers # <<>>

(* C20: listItems never notifies and never writes or removes, whatever its *)
(* arguments; a publishItems called while initialized notifies exactly     *)
(* once, when it settles, with ("all", the list it obtained, cacheKey).    *)
C20_ListSilentPublishOnce ==
  /\ []( step.op = "listItems"
         => /\ step.notes = <<>>
            /\ \A i \in 1..Len(step.calls) : IsRead(step.calls[i]) )
  /\ [][ step'.op = "listItems" => (local' = local /\ db' = db) ]_vars
  /\ []( (step.op = "publishItems" /\ step.wasInit)
         => /\ step.err = NoErr
            /\ \A i \in 1..Len(step.calls) : step.calls[i] = ListCall(step.store)
            /\ IF step.done
               THEN /\ Len(step.notes) = 1
                    /\ Carries(step.notes[1], AllKey, step.read, step.store)
                    /\ step.read \in {EmptyArr, EmptyPage, Page}
               ELSE step.notes = <<>> )

C20_Witness ==
  /\ step.op = "publishItems" /\ step.done /\ step.store = "users"
  /\ Len(step.notes) = 1
  /\ step.notes[1].val = EmptyPage
  /\ step.notes[1].heard # <<>>

----------------------------------------------------------------------------
(* Bulk notifications *)

\* the fan-out is a bulk one ("all") for localStorage (no cacheKey)
BulkForDefaultStore(note) == note.key = AllKey /\ ~Truthy(note.store)

(* C21: no operation emits a notification whose key is "all" and whose     *)
(* cacheKey is absent (localStorage); in particular publishItems without a *)
(* cacheKey emits none.                                                    *)
C21_NoBulkForDefaultStore ==
  \A i \in 1..Len(step.notes) : ~BulkForDefaultStore(step.notes[i])

----------------------------------------------------------------------------
(* Lists that yield nothing *)

\* a settled listItems, called while initialized for a named store
NamedList == step.op = "listItems" /\ step.done /\ step.wasInit /\ Truthy(step.store)

\* the store has no database in the cache map, or its listItems resolved
\* to null
NoUsableList ==
  \/ step.store \notin CacheMap
  \/ /\ Behaviour(step.store) = DbListsNothing
     /\ step.calls = <<ListCall(step.store)>>

\* what the fallback given to the last list operation resolves to
StepListFbValue == IF step.fb = NoFallback THEN EmptyArr ELSE step.fb

(* C22: listItems for a named store asks that store's database for the     *)
(* list, and when the database resolves to null, or the name has no        *)
(* database, it invokes the fallback once and resolves to the fallback's   *)
(* result.                                                                 *)
C22_ListFallsBack ==
  NamedList =>
     /\ (step.store \in CacheMap) => step.calls = <<ListCall(step.store)>>
     /\ NoUsableList => /\ step.err = NoErr
                        /\ step.fbCalls = 1
                        /\ step.ret = StepListFbValue

----------------------------------------------------------------------------
(* Clearing *)

\* a clearItems called while initialized
Cleared == step.op = "clearItems" /\ step.wasInit

ClearCall(target) ==
  Call(target, IF target = "local" THEN "clear" ELSE "clearItems", Undef, Undef)

\* how many of the calls are exactly c
CountCalls(calls, c) == Cardinality({i \in 1..Len(calls) : calls[i] = c})

IsEmptyStore(store) == \A k \in KeyDomain : store[k] = Absent

(* C23: clearItems("all") clears localStorage and calls clearItems of       *)
(* every database of the cache map that has one, exactly once each;        *)
(* databases without clearItems are skipped, keep their items, and cause   *)
(* no error.                                                               *)
C23_ClearAll ==
  /\ []( (Cleared /\ step.store = "all")
         => /\ step.err = NoErr
            /\ CountCalls(step.calls, ClearCall("local")) = 1
            /\ \A n \in CacheMap :
                 CountCalls(step.calls, ClearCall(n)) = (IF HasClearItems(Behaviour(n)) THEN 1 ELSE 0)
            /\ Len(step.calls) = 1 + Cardinality({n \in CacheMap : HasClearItems(Behaviour(n))})
            /\ IsEmptyStore(local)
            /\ \A n \in CacheMap : HasClearItems(Behaviour(n)) => IsEmptyStore(db[n]) )
  /\ [][ (step'.op = "clearItems" /\ step'.wasInit /\ step'.store = "all")
         => \A n \in CacheMap : ~HasClearItems(Behaviour(n)) => db'[n] = db[n] ]_vars

C23_Witness ==
  /\ Cleared /\ step.store = "all"
  /\ step.calls = <<ClearCall("local"), ClearCall("users")>>
  /\ subscribers # <<>>

(* C24: clearItems without a cacheKey clears localStorage only and calls   *)
(* no database; clearItems(name), name other than "all", calls only that   *)
(* database's clearItems if it has one, leaving localStorage and every     *)
(* other database as they were, and does nothing when the name is unknown  *)
(* or the database has no clearItems; no clearItems notifies anybody.      *)
C24_ClearScoped ==
  /\ []( step.op = "clearItems" => step.notes = <<>> )
  /\ []( (Cleared /\ ~Truthy(step.store))
         => /\ step.err = NoErr
            /\ step.calls = <<ClearCall("local")>>
            /\ IsEmptyStore(local) )
  /\ []( (Cleared /\ Truthy(step.store) /\ step.store # "all")
         => /\ step.err = NoErr
            /\ IF step.store \in CacheMap /\ HasClearItems(Behaviour(step.store))
               THEN /\ step.calls = <<ClearCall(step.store)>>
                    /\ IsEmptyStore(db[step.store])
               ELSE step.calls = <<>> )
  /\ [][ (step'.op = "clearItems" /\ step'.wasInit /\ ~Truthy(step'.store))
         => db' = db ]_vars
  /\ [][ (step'.op = "clearItems" /\ step'.wasInit /\ Truthy(step'.store)
           /\ step'.store # "all")
         => /\ local' = local
            /\ \A n \in CacheMap :
                 (n # step'.store \/ ~HasClearItems(Behaviour(n))) => db'[n] = db[n] ]_vars

C24_Witness ==
  /\ Cleared /\ step.store = "users"
  /\ step.calls = <<ClearCall("users")>>
  /\ ~IsEmptyStore(local)
  /\ subscribers # <<>>

----------------------------------------------------------------------------
(* Batches *)

\* a cacheMultiple called while initialized
Batch == step.op = "cacheMultiple" /\ step.wasInit

\* the entries cacheMultiple gets to: those before the first one without a key
Reached(items) == {i \in 1..Len(items) : \A j \in 1..i : Truthy(items[j].key)}

\* the store call cacheItem makes for an entry: a write when the value is
\* truthy, a remove otherwise, none when the name has no database
EntryCalls(it) ==
  IF ~Resolves(it.cacheKey) THEN <<>>
  ELSE IF Truthy(it.value) THEN <<WriteCall(it.key, it.value, it.cacheKey)>>
  ELSE <<RemoveCall(it.key, it.cacheKey)>>

RECURSIVE BatchCalls(_, _)
BatchCalls(items, n) ==
  IF n = 0 THEN <<>> ELSE BatchCalls(items, n - 1) \o EntryCalls(items[n])

(* C25: cacheMultiple(items) treats each entry as cacheItem does, in array  *)
(* order: it writes when the value is present and removes when it is not,  *)
(* stops with the missing-key error at an entry without a key, and emits   *)
(* one fan-out (key, value, cacheKey) per entry, in array order, so a      *)
(* batch of n entries with keys gives exactly n fan-outs; an empty batch   *)
(* makes no call and no fan-out and throws nothing.                        *)
C25_BatchInOrder ==
  Batch =>
    LET n == Cardinality(Reached(step.items)) IN
    /\ Len(step.notes) = n
    /\ \A i \in 1..n :
         Carries(step.notes[i], step.items[i].key, step.items[i].value,
                 step.items[i].cacheKey)
    /\ step.calls = BatchCalls(step.items, n)
    /\ step.err = (IF n = Len(step.items) THEN NoErr ELSE ErrNoKey)
    /\ (step.items = <<>>) => (step.calls = <<>> /\ step.notes = <<>>)

C25_Witness ==
  /\ Batch
  /\ Len(step.items) = 4
  /\ Len(step.notes) = 4
  /\ step.notes[1].val # step.notes[2].val
  /\ step.notes[1].heard # <<>>

\* the fan-outs of the last step that invoked the user listener of entry e
Invocations(e) == {n \in 1..Len(step.notes) : InvokedBy(step.notes[n], e)}

(* C26: when the batch of one cacheMultiple call has entries for a store,  *)
(* a listener registered with subscribeToCaches for that store (default    *)
(* predicate) is invoked exactly once for the whole batch, however many    *)
(* entries the batch has for the store.                                    *)
C26_OncePerBatch ==
  (Batch /\ step.err = NoErr) =>
    \A i \in 1..Len(subscribers) :
      ( /\ subscribers[i].scoped
        /\ subscribers[i].pred = "default"
        /\ \E j \in 1..Len(step.items) : step.items[j].cacheKey \in subscribers[i].caches )
      => Cardinality(Invocations(subscribers[i])) = 1

----------------------------------------------------------------------------
(* Reading back *)

\* this step is the call of getItem(key, cacheKey), without a fallback,
\* right after the step before it
ReadsBack(key, cacheKey) ==
  /\ pending = <<>>
  /\ step'.op = "getItem" /\ step'.wasInit /\ ~step'.done
  /\ step'.key = key /\ step'.store = cacheKey
  /\ step'.fb = NoFallback

(* C27: for every key and value v, cacheItem(key, v) followed at once by   *)
(* getItem(key) for the same store, without a fallback, resolves to v and  *)
(* notifies nobody: the store read of that getItem yields v, a hit.        *)
C27_WriteThenRead ==
  [][ ( /\ step.op = "cacheItem" /\ step.err = NoErr
        /\ ReadsBack(step.key, step.store) )
      => (step'.read = step.val /\ Truthy(step'.read)) ]_vars

\* the last step settled, without an error, a getItem whose store read missed
MissCompleted == Missed("getItem") /\ step.err = NoErr

(* C28 as stated, for the store of an absent cacheKey and a fallback that  *)
(* has resolved to a truthy value: after getItem(key, s, fallback) has     *)
(* completed on a miss, the getItem(key, s) that follows at once is a hit  *)
(* on the value the first call returned.                                   *)
C28_MissThenHit ==
  [][ ( /\ MissCompleted /\ ~Truthy(step.store) /\ Truthy(step.ret)
        /\ ReadsBack(step.key, step.store) )
      => (Truthy(step'.read) /\ step'.read = step.ret) ]_vars

----------------------------------------------------------------------------
(* Order of a fan-out *)

\* the registry positions whose entry invokes its listener for the event
Admitted(note) ==
  {i \in 1..Len(subscribers) :
     Activates(subscribers[i], note.key, note.val, note.store)}

\* the rank of position i among them
Rank(note, i) == Cardinality({j \in Admitted(note) : j <= i})

(* C29: a fan-out is synchronous and ordered.  The entries of the one      *)
(* registry, those of subscribe and those of subscribeToCaches alike, are  *)
(* gone through in registration order, so the listeners invoked are those  *)
(* of the admitting entries in registry order, each once, all for the same *)
(* (key, value, cacheKey); the fan-out is part of the step in which the    *)
(* operation returns.                                                      *)
C29_OrderedFanOut ==
  \A n \in 1..Len(step.notes) :
    LET note == step.notes[n] IN
    /\ step.done
    /\ Carries(note, step.key, Null, step.store)
    /\ Len(note.heard) = Cardinality(Admitted(note))
    /\ \A i \in Admitted(note) :
         note.heard[Rank(note, i)] = [id |-> subscribers[i].id, fn |-> subscribers[i].fn]

\* a fan-out over a registry with a scoped entry ahead of a global one:
\* the scoped listener is invoked first
C29_Witness ==
  /\ FannedOut
  /\ Len(subscribers) >= 3
  /\ subscribers[1].scoped /\ ~subscribers[2].scoped
  /\ Len(step.notes[1].heard) >= 3
  /\ step.notes[1].heard[1].id # 0
  /\ step.notes[1].heard[2].id = 0

----------------------------------------------------------------------------
(* Backends that reject *)

\* the last step made a call to a database whose calls reject
BackendRejected ==
  \E i \in 1..Len(step.calls) :
    /\ step.calls[i].target \in CacheMap
    /\ Behaviour(step.calls[i].target) = DbRejects

(* C30: when a database call made by cacheItem, removeItem, getItem or     *)
(* publishItem rejects, the operation fails towards its caller with that   *)
(* rejection and emits no notification.                                    *)
C30_RejectionPropagates ==
  ( /\ step.op \in {"cacheItem", "removeItem", "getItem", "publishItem"}
    /\ step.wasInit /\ step.done
    /\ BackendRejected )
  => /\ step.err = ErrBackend
     /\ step.notes = <<>>

----------------------------------------------------------------------------
(* Batches that fail *)

\* what a store holds after cacheItem(key, value, cacheKey)
StoredForm(value, cacheKey) ==
  IF ~Truthy(value) THEN Absent
  ELSE IF Truthy(cacheKey) THEN value ELSE ToStr(value)

\* entry i is the last of the first n entries for its key and store
LastFor(items, n, i) ==
  \A j \in (i + 1)..n :
    items[j].key # items[i].key \/ items[j].cacheKey # items[i].cacheKey

(* C31: cacheMultiple is not atomic.  When it fails at entry i (an entry   *)
(* without a key), the entries before i have been written and notified,    *)
(* the entries from i on are neither written nor notified, and what was    *)
(* applied stays in the stores.                                            *)
C31_BatchNotAtomic ==
  (Batch /\ step.err # NoErr) =>
    LET n == Cardinality(Reached(step.items)) IN
    /\ step.err = ErrNoKey
    /\ n < Len(step.items) /\ ~Truthy(step.items[n + 1].key)
    /\ step.calls = BatchCalls(step.items, n)
    /\ Len(step.notes) = n
    /\ \A i \in 1..n :
         /\ Carries(step.notes[i], step.items[i].key, step.items[i].value,
                    step.items[i].cacheKey)
         /\ (LastFor(step.items, n, i) /\ Resolves(step.items[i].cacheKey))
              => StoredAt(World, step.items[i].key, step.items[i].cacheKey)
                   = StoredForm(step.items[i].value, step.items[i].cacheKey)

\* the batch failed at its second entry: the first is in localStorage and
\* was notified, the third, for "users", was not written
C31_Witness ==
  /\ Batch /\ step.err = ErrNoKey
  /\ Len(step.items) = 3 /\ Len(step.notes) = 1
  /\ local["k"] = Str1
  /\ db["users"]["k"] = Absent
  /\ step.notes[1].heard # <<>>

----------------------------------------------------------------------------
(* Notifications of publishItem *)

\* the last step settled a publishItem that was called while initialized
Published == step.op = "publishItem" /\ step.done /\ step.wasInit

\* two fan-outs, both (key, what the fallback resolved to, cacheKey)
TwiceWithFallbackValue ==
  /\ Len(step.notes) = 2
  /\ \A n \in 1..2 : Carries(step.notes[n], step.key, StepFbValue, step.store)

(* C36 as stated: publishItem emits one notification on a hit and, on a    *)
(* miss, exactly two, both (key, fallback value, cacheKey), whatever the   *)
(* key.                                                                    *)
C36_Original ==
  Published =>
    /\ Truthy(step.read) => Len(step.notes) = 1
    /\ ~Truthy(step.read) => TwiceWithFallbackValue

\* the fallback of the publishItem at position i of `pending` resolves in
\* this step: the call moves on from its `await fallback()`
FallbackResolves(i) ==
  /\ pending[i].op = "publishItem" /\ pending[i].pc = "fallback"
  /\ Len(pending') = Len(pending)
  /\ pending'[i].pc # "fallback"

\* the publishItem at position i of `pending` settles in this step
PublishSettles(i) ==
  /\ pending[i].op = "publishItem" /\ pending[i].pc \in {"publish", "rejected"}
  /\ pending' = Drop(pending, i)

(* C36: publishItem on a hit emits one notification.  On a miss, when the  *)
(* fallback has resolved: with a non-empty key and the ADI initialized at  *)
(* that moment, the write inside getItem emits one notification (key,      *)
(* fallback value, cacheKey) and publishItem, resumed, emits the second    *)
(* and returns: exactly two, both (key, fallback value, cacheKey).  With   *)
(* the ADI uninitialized at that moment (an end() during the call), or     *)
(* with an empty key, the write throws the not-initialized error, or else  *)
(* the missing-key error, before any notification; publishItem, resumed,   *)
(* rejects with that error, whatever start() or end() did meanwhile, and   *)
(* has emitted none.                                                       *)
C36_PublishCounts ==
  /\ [][ \A i \in 1..Len(pending) :
           /\ FallbackResolves(i)
                => IF initialized /\ Truthy(pending[i].key)
                   THEN /\ pending'[i].pc = "publish"
                        /\ Len(pending'[i].notes) = 1
                        /\ Carries(pending'[i].notes[1], pending[i].key,
                                   FbValue(pending[i]), pending[i].store)
                   ELSE /\ pending'[i].pc = "rejected"
                        /\ pending'[i].err = (IF initialized THEN ErrNoKey ELSE ErrNotInit)
                        /\ pending'[i].notes = <<>>
           /\ PublishSettles(i)
                => IF pending[i].pc = "publish"
                   THEN /\ step'.err = NoErr
                        /\ Len(step'.notes) = Len(pending[i].notes) + 1
                   ELSE /\ step'.err = pending[i].err
                        /\ step'.notes = pending[i].notes ]_vars
  /\ []( Published =>
           /\ Truthy(step.read)
                => /\ step.err = NoErr
                   /\ Len(step.notes) = 1
                   /\ Carries(step.notes[1], step.key, step.read, step.store)
           /\ (~Truthy(step.read) /\ step.err = NoErr)
                => Truthy(step.key) /\ TwiceWithFallbackValue
           /\ (~Truthy(step.read) /\ step.err # NoErr)
                => /\ step.notes = <<>>
                   /\ step.err \in {ErrNoKey, ErrNotInit}
                   /\ Truthy(step.key) => step.err = ErrNotInit )

C36_Witness ==
  /\ Published /\ ~Truthy(step.read) /\ step.fb = Str1
  /\ TwiceWithFallbackValue
  /\ step.notes[1].heard # <<>>
  /\ step.notes[2].heard # <<>>

----------------------------------------------------------------------------
(* Notifications after an end *)

(* C37: no listener is invoked while the ADI is uninitialized, also when   *)
(* end() is called while a getItem, publishItem or publishItems is         *)
(* suspended and the call resumes afterwards: an operation that returns    *)
(* having notified (its last fan-out is part of the step in which it       *)
(* returns) does so with the ADI initialized.                              *)
C37_SilentWhenUninitialized ==
  (step.done /\ step.notes # <<>> /\ step.notes[Len(step.notes)].heard # <<>>)
    => initialized

----------------------------------------------------------------------------
(* Order inside a write *)

WritingOps == {"cacheItem", "cacheMultiple", "getItem", "publishItem"}

\* the last step has issued a write or a remove
WriteIssued == \E i \in 1..Len(step.calls) : IsWrite(step.calls[i]) \/ IsRemove(step.calls[i])

\* fan-out n of the last step is the one of a write or remove: any of
\* cacheItem or cacheMultiple, the first of a getItem or publishItem that
\* missed (the second of publishItem is its own notifyAll)
FromWrite(n) ==
  \/ step.op \in {"cacheItem", "cacheMultiple"}
  \/ (step.op \in {"getItem", "publishItem"} /\ ~Truthy(step.read) /\ n = 1)

\* what localStorage gives for a key after cacheItem(key, value)
ReadAfter(value) == IF Truthy(value) THEN ToStr(value) ELSE Null

(* C35: within one write the steps are ordered.  In a getItem or a         *)
(* publishItem that missed, the write or remove is issued only once the    *)
(* fallback has been invoked and has resolved, and listeners are invoked   *)
(* only once the write or remove has been issued: when a fan-out starts,   *)
(* the store its cacheKey stands for, localStorage or a database, holds    *)
(* the value of the event (nothing, after a remove); and a listener that   *)
(* reads the key from localStorage during the fan-out of a write to        *)
(* localStorage sees the value just written (nothing, after a remove).     *)
C35_WriteThenNotify ==
  /\ (step.op \in {"getItem", "publishItem"} /\ step.wasInit /\ ~Truthy(step.read))
       => /\ step.fbCalls <= 1
          /\ WriteIssued => step.fbCalls = 1
          /\ (step.notes # <<>>)
               => /\ step.fbCalls = 1
                  /\ Resolves(step.store) => WriteIssued
  /\ (step.op \in WritingOps)
       => \A n \in 1..Len(step.notes) :
            /\ (FromWrite(n) /\ Resolves(step.notes[n].store))
                 => step.notes[n].stored
                      = StoredForm(step.notes[n].val, step.notes[n].store)
            /\ ~Truthy(step.notes[n].store)
                 => step.notes[n].seen = ReadAfter(step.notes[n].val)

\* the test's case: publishItem("k", undefined, fallback) missed, and the
\* listener of its first fan-out finds the fallback's value in localStorage
C35_Witness ==
  /\ Published /\ ~Truthy(step.read) /\ step.fb = Str1 /\ ~Truthy(step.store)
  /\ Len(step.notes) = 2
  /\ step.notes[1].seen = Str1
  /\ step.notes[1].heard # <<>>
  /\ step.fbCalls = 1

----------------------------------------------------------------------------
(* Instances *)

(* C38: instances created from different cache maps are independent.  As   *)
(* checked here: once onApplicationStart() of an instance has             *)
(* returned without throwing, the ADI is initialized over a cache          *)
(* interface built from that instance's own cache map, so that its         *)
(* operations reach the databases of its map and no others.                *)
C38_OwnAdapterAfterStart ==
  (step.op = "start" /\ step.err = NoErr)
    => /\ initialized
       /\ IsAdapter(cache)
       /\ cache.of = step.inst

----------------------------------------------------------------------------
(* Scoped subscriptions are never merged *)

\* the registry positions whose entry wraps the user listener l
EntriesOf(l) == {i \in 1..Len(subscribers) : subscribers[i].fn = l}

\* how often the fan-out invoked the user listener l
TimesHeard(note, l) == Cardinality({j \in 1..Len(note.heard) : note.heard[j].fn = l})

(* C40: subscribeToCaches never de-duplicates.  Every call with acceptable *)
(* arguments appends one new entry to the registry, whether or not the     *)
(* listener is registered already, while subscribe leaves the registry     *)
(* alone for a listener it holds; a fan-out invokes a listener once per    *)
(* entry of it that admits the event; and calling an unsubscribe removes   *)
(* the entry it was returned for and no other.                             *)
C40_ScopedNotDeduplicated ==
  [][ /\ (step'.op = "subscribeToCaches" /\ step'.err = NoErr)
         => /\ Len(subscribers') = Len(subscribers) + 1
            /\ SubSeq(subscribers', 1, Len(subscribers)) = subscribers
            /\ subscribers'[Len(subscribers')].scoped
            /\ subscribers'[Len(subscribers')].fn = step'.key
            /\ \A i \in 1..Len(subscribers) :
                  subscribers[i] # subscribers'[Len(subscribers')]
      /\ (step'.op = "subscribe" /\ step'.ret = "noOp") => subscribers' = subscribers
      /\ step'.op = "unsubscribe"
         => subscribers' = SelectSeq(subscribers, LAMBDA s : s # step'.val)
      /\ \A n \in 1..Len(step'.notes) : \A l \in Listeners :
           TimesHeard(step'.notes[n], l)
             = Cardinality({i \in EntriesOf(l)' :
                              Activates(subscribers'[i], step'.notes[n].key,
                                        step'.notes[n].val, step'.notes[n].store)})
    ]_vars

\* one listener registered twice for "users" is invoked twice by a removal
\* from "users"
C40_Witness ==
  /\ FannedOut /\ step.store = "users"
  /\ \E i, j \in 1..Len(subscribers) :
       /\ i < j
       /\ subscribers[i].scoped /\ subscribers[j].scoped
       /\ subscribers[i].fn = "l1" /\ subscribers[j].fn = "l1"
       /\ subscribers[i].caches = subscribers[j].caches
  /\ TimesHeard(step.notes[1], "l1") = 2

----------------------------------------------------------------------------
(* Overlapping calls *)

\* the last segment settled a getItem whose read missed, with the ADI still
\* initialized and a key cacheItem accepts
MissSettled == Missed("getItem") /\ initialized /\ Truthy(step.key)

\* the write or remove calls the last operation issued
Writes == SelectSeq(step.calls, LAMBDA c : IsWrite(c) \/ IsRemove(c))

MissWroteOwnValue ==
  /\ step.err = NoErr
  /\ step.ret = StepFbValue
  /\ Writes = <<WriteCall(step.key, StepFbValue, step.store)>>
  /\ Len(step.notes) = 1
  /\ Carries(step.notes[1], step.key, StepFbValue, step.store)
  /\ StoredAt(World, step.key, step.store) = StoredForm(StepFbValue, step.store)

(* C32: a getItem whose read missed does not look at the store again.      *)
(* When its fallback has resolved and the store meanwhile holds a value    *)
(* that another call wrote under the key during the suspension, the        *)
(* resumed getItem (the ADI being initialized) writes the fallback's value *)
(* over it, notifies once with the fallback's value and returns the        *)
(* fallback's value; the store then holds the fallback's value.            *)
C32_FallbackOverwrites ==
  (MissSettled /\ step.held # Absent)
    => /\ MissWroteOwnValue
       /\ step.ret = step.fb

\* cacheItem("k", "3", "users") ran while getItem("k", "users", fallback)
\* was suspended; the getItem resumes and stores and returns "1"
C32_Witness ==
  /\ MissSettled /\ step.store = "users" /\ step.fb = Str1
  /\ step.held = Str3
  /\ step.ret = Str1
  /\ db["users"]["k"] = Str1
  /\ step.notes[1].heard # <<>>

(* C39: getItem calls for one missing key and store that overlap are not   *)
(* coalesced.  Every suspended call whose read missed has invoked its own  *)
(* fallback, once, and has written and notified nothing yet; every such    *)
(* call that settles (the ADI being initialized) has invoked its fallback  *)
(* once, issued one write, of its own fallback's value, and emitted one    *)
(* notification, with that value, so that the store holds the value of     *)
(* the call that resumed last.                                             *)
C39_NotCoalesced ==
  /\ \A i \in 1..Len(pending) :
       (pending[i].op = "getItem" /\ pending[i].pc = "fallback")
         => /\ pending[i].fbCalls = 1
            /\ pending[i].notes = <<>>
            /\ \A j \in 1..Len(pending[i].calls) : IsRead(pending[i].calls[j])
  /\ MissSettled => (step.fbCalls = 1 /\ MissWroteOwnValue)

\* two getItem("k", "users", ...) both missed; the one with fallback "2"
\* wrote first, this one (fallback "1") resumed last and its value stays
C39_Witness ==
  /\ MissSettled /\ step.store = "users" /\ step.fb = Str1
  /\ step.held = Str2
  /\ step.fbCalls = 1
  /\ db["users"]["k"] = Str1
  /\ Len(step.notes) = 1 /\ step.notes[1].heard # <<>>

----------------------------------------------------------------------------
(* Listeners that act during a fan-out *)

\* the entries of subs up to the first whose listener throws for the event
RECURSIVE UpToThrow(_, _, _, _)
UpToThrow(subs, k, v, c) ==
  IF subs = <<>> THEN <<>>
  ELSE IF Activates(Head(subs), k, v, c) /\ Head(subs).fn = Thrower THEN <<Head(subs)>>
  ELSE <<Head(subs)>> \o UpToThrow(Tail(subs), k, v, c)

\* the fan-out invoked the user listener l
HeardBy(note, l) == \E j \in 1..Len(note.heard) : note.heard[j].fn = l

\* some entry of subs admits the event and its listener throws
Throws(subs, k, v, c) ==
  \E i \in 1..Len(subs) : Activates(subs[i], k, v, c) /\ subs[i].fn = Thrower

(* C33: a fan-out goes through the registry as it was when the pass began. *)
(* The listeners a cacheItem invokes are those of the entries registered   *)
(* before the call, in order (up to one that throws): a listener that was  *)
(* subscribed by a listener during the pass is not invoked in it, and a    *)
(* listener unsubscribed during the pass is still invoked in it.  The      *)
(* change is in the registry when the pass is over: the listener           *)
(* subscribed is in it, the one unsubscribed is not, and so for the next   *)
(* fan-out.                                                                *)
C33_PassOverSnapshot ==
  [][ (step'.op = "cacheItem" /\ step'.notes # <<>>)
        => LET n == step'.notes[1] IN
           /\ n.heard = Heard(UpToThrow(subscribers, n.key, n.val, n.store),
                              n.key, n.val, n.store)
           /\ ~Includes(subscribers, GlobalEntry("l2")) => ~HeardBy(n, "l2")
           /\ (Includes(subscribers, GlobalEntry("l1"))
                 /\ ~Throws(subscribers, n.key, n.val, n.store))
                => HeardBy(n, "l1")
           /\ HeardBy(n, Adder) => Includes(subscribers', GlobalEntry("l2"))
           /\ (HeardBy(n, Dropper) /\ GlobalEntry("l1") \in unsubs)
                => ~Includes(subscribers', GlobalEntry("l1"))
    ]_vars

\* one pass in which the dropper unsubscribed l1 before l1's turn and the
\* adder subscribed l2: l1 was invoked after the dropper and is gone from
\* the registry, l2 was not invoked and is in the registry
C33_Witness ==
  /\ step.op = "cacheItem" /\ step.err = NoErr /\ Len(step.notes) = 1
  /\ \E i, j \in 1..Len(step.notes[1].heard) :
       /\ i < j
       /\ step.notes[1].heard[i].fn = Dropper
       /\ step.notes[1].heard[j].fn = "l1"
  /\ ~Includes(subscribers, GlobalEntry("l1"))
  /\ HeardBy(step.notes[1], Adder)
  /\ ~HeardBy(step.notes[1], "l2")
  /\ Includes(subscribers, GlobalEntry("l2"))

(* C34: what a listener throws is not caught.  When a cacheItem that       *)
(* passed its checks reaches a registered listener that throws, cacheItem  *)
(* throws what the listener threw and returns nothing, the listeners       *)
(* registered after that one are not invoked for the event, and the        *)
(* setItem or removeItem issued before the fan-out stays done; when no     *)
(* listener throws, cacheItem returns normally.                            *)
C34_ListenerThrowPropagates ==
  [][ (step'.op = "cacheItem" /\ step'.wasInit /\ Truthy(step'.key))
        => IF Throws(subscribers, step'.key, step'.val, step'.store)
           THEN /\ step'.err = ErrListener
                /\ step'.ret = Undef
                /\ Len(step'.notes) = 1
                /\ step'.notes[1].heard # <<>>
                /\ \A j \in 1..Len(step'.notes[1].heard) :
                     (step'.notes[1].heard[j].fn = Thrower)
                       <=> j = Len(step'.notes[1].heard)
                /\ Len(step'.notes[1].heard)
                     <= Cardinality({i \in 1..Len(subscribers) :
                          \A h \in 1..(i - 1) : subscribers[h].fn # Thrower})
                /\ step'.calls = <<IF Truthy(step'.val)
                                    THEN WriteCall(step'.key, step'.val, step'.store)
                                    ELSE RemoveCall(step'.key, step'.store)>>
                /\ StoredAt([local |-> local', db |-> db'], step'.key, step'.store)
                     = StoredForm(step'.val, step'.store)
           ELSE /\ step'.err = NoErr
                /\ step'.ret = step'.val
    ]_vars

\* cacheItem("k", 1, "users") with the thrower registered before l1: the
\* call threw, l1 was not invoked, and the database holds the value
C34_Witness ==
  /\ step.op = "cacheItem" /\ step.err = ErrListener /\ step.val = Num1
  /\ HeardBy(step.notes[1], Thrower)
  /\ \E i, j \in 1..Len(subscribers) :
       i < j /\ subscribers[i].fn = Thrower /\ subscribers[j].fn = "l1"
  /\ ~HeardBy(step.notes[1], "l1")
  /\ db["users"]["k"] = Num1
  /\ step.calls = <<Call("users", "putItem", "k", Num1)>>

====
